---- MODULE Spec2Model ----
(***************************************************************************)
(* Control-and-reward core of the batched Franka cube tasks                *)
(* (FrankaCubePush, FrankaCubeSlide, FrankaCubeThrow).                     *)
(*                                                                         *)
(* Object distances are integers in centimetres, speeds in millimetres per *)
(* second, torques in newton metres; sampled positions and pose errors are *)
(* in millimetres, joint angles in milliradians, gains in newtons per      *)
(* metre.  Floating-point results that can be                              *)
(* non-finite are records [k, v] with k in {"fin", "inf", "nan"}.          *)
(***************************************************************************)
EXTENDS Integers, FiniteSets, Sequences, TLC

----------------------------------------------------------------------------
(* Bounds of the model *)

NumEnvs == 2
MaxSteps == 3
MaxEpisodeLength == 3
MaxHoldSteps == 1
MaxControlFreqInv == 1
BigTorque == 1000000

Envs == 0 .. (NumEnvs - 1)

----------------------------------------------------------------------------
(* Program constants *)

NumArmJoints == 7
ArmJoints == 0 .. (NumArmJoints - 1)

\* reward_settings["success_threshold"] = 0.05 m (push), local 0.05 (slide, throw)
SuccessThreshold == 5
\* terminal_velocity_threshold = 0.001 m/s
TerminalVelocityThreshold == 1
\* contact threshold 0.2 m of the throw task's contact timer
ContactThreshold == 20
\* go_to_pos(xyz_target, epsilon=1e-3, max_steps=50): epsilon in millimetres
GoToPosEpsilon == 1
GoToPosMaxSteps == 50
\* self.go_to_pos(xyz_target, epsilon=-np.inf, max_steps=100)
PushMaxSteps == 100
\* kp_vel = 10, ki_vel = 50
KpVel == 10
KiVel == 50

controlled_joints == {1, 3, 5}

\* the nine joints of the robot: seven arm joints and two gripper fingers
NumDofs == 9
Dofs == 0 .. (NumDofs - 1)
GripperDofs == {NumDofs - 2, NumDofs - 1}

\* mass, friction and the three centre-of-mass coordinates
NumPrivParams == 5

\* width of torch.cat([cube_pos, cube_quat], dim=1)
NumCubeStates == 7

\* cube_size = 0.05 m, in millimetres
CubeSize == 50
\* _table_surface_pos[2] = 1.0 + table_thickness / 2, in millimetres
TableSurfaceZ == 1025

\* actuator effort limits of the arm joints, read from the robot asset
franka_effort_limits == [j \in ArmJoints |-> IF j < 4 THEN 87 ELSE 12]

\* franka_default_dof_pos, in milliradians (arm) and millimetres (fingers)
franka_default_dof_pos(c) ==
    CASE c.task = "push" /\ c.controlInput \in {"pose2d", "primitive"} ->
           << -76, 757, -48, -2329, 510, 3075, 165, 1, 1 >>
      [] c.task = "throw" ->
           << 0, 1047, 0, -1571, 0, 2618, 785, 20, 20 >>
      [] OTHER ->
           << 0, 196, 0, -2618, 0, 2942, 785, 1, 1 >>

\* joint limits of the robot asset, same units
franka_dof_lower_limits ==
    << -2897, -1763, -2897, -3072, -2897, -18, -2897, 0, 0 >>
franka_dof_upper_limits ==
    << 2897, 1763, 2897, -70, 2897, 3753, 2897, 40, 40 >>

\* _table_surface_pos[:2]: the table centre, in millimetres
table_surface_xy(task) == IF task = "throw" THEN << 1000, 0 >> ELSE << 0, 0 >>

\* keys of the reward_settings dictionary built by each constructor
reward_settings_keys(task) ==
    CASE task = "push"  -> {"r_pos_scale", "r_ori_scale", "r_contact_scale",
                            "r_success_scale", "n_hold_steps",
                            "success_threshold", "table_height"}
      [] task = "slide" -> {"r_pos_scale", "r_ori_scale", "r_contact_scale",
                            "table_height"}
      [] task = "throw" -> {"r_pos_scale", "r_ori_scale", "r_contact_scale",
                            "r_vel_scale", "r_success_scale",
                            "r_eef_approach_scale", "table_height"}

\* cfg["env"]["numActions"] as each constructor sets it
numActions(c) ==
    CASE c.task = "push" ->
           (CASE c.controlInput = "pose3d"    -> 3
              [] c.controlInput = "pose2d"    -> 2
              [] c.controlInput = "primitive" -> 2
              [] OTHER                        -> 6)
           + (IF c.variableImpedance THEN 6 ELSE 0)
      [] c.task = "slide" -> (IF c.controlInput = "pose3d" THEN 3 ELSE 6)
      [] c.task = "throw" -> 4

----------------------------------------------------------------------------
(* Floating-point values *)

Fin(n) == [k |-> "fin", v |-> n]
NaN == [k |-> "nan", v |-> 0]
PInf == [k |-> "inf", v |-> 1]
NInf == [k |-> "inf", v |-> -1]
NonFinite == {NaN, PInf, NInf}

\* a <= b on values that are not NaN
FLeq(a, b) ==
    IF a.k = "inf" THEN (a.v = -1 \/ (b.k = "inf" /\ b.v = 1))
    ELSE IF b.k = "inf" THEN b.v = 1
    ELSE a.v <= b.v

\* torch.min and torch.max of two tensors, elementwise: NaN propagates
torch_min(a, b) ==
    IF a.k = "nan" THEN a ELSE IF b.k = "nan" THEN b
    ELSE IF FLeq(a, b) THEN a ELSE b

torch_max(a, b) ==
    IF a.k = "nan" THEN a ELSE IF b.k = "nan" THEN b
    ELSE IF FLeq(a, b) THEN b ELSE a

\* tensor_clamp(t, min_t, max_t) = torch.max(torch.min(t, max_t), min_t)
tensor_clamp(t, min_t, max_t) == torch_max(torch_min(t, max_t), min_t)

\* a + b: NaN propagates, opposite infinities give NaN
FAdd(a, b) ==
    IF a.k = "nan" \/ b.k = "nan" THEN NaN
    ELSE IF a.k = "inf" THEN (IF b.k = "inf" /\ b.v # a.v THEN NaN ELSE a)
    ELSE IF b.k = "inf" THEN b
    ELSE Fin(a.v + b.v)

\* torch.sqrt, rounded down to an integer
MaxRoot == 64
sqrt(n) == CHOOSE r \in 0 .. MaxRoot : r * r <= n /\ n < (r + 1) * (r + 1)

\* torch.sigmoid of an integer logit, in thousandths
sigmoid(g) ==
    CASE g <= -2 -> 119
      [] g = -1  -> 269
      [] g = 0   -> 500
      [] g = 1   -> 731
      [] OTHER   -> 881

----------------------------------------------------------------------------
(* State *)

VARIABLES
    cfg,            \* the configuration the task is constructed with
    pc,             \* position: "new", "idle", "sim", "post", "go1", "go2",
                    \* "raised"; "reward", "returned" around compute_reward alone
    raised,         \* the exception that ended the last call, "" when none
    control_steps,  \* self.control_steps: completed step() calls
    sim_left,       \* physics advances left in the running step() call
    progress_buf,   \* self.progress_buf
    reset_buf,      \* self.reset_buf
    success_buf,    \* self.extras['success']
    hold_counters,  \* self.states["hold_counters"] (push)
    contact_time,   \* self.contact_time (throw)
    cube_contact,   \* norm of self.states["cube_contact"], as last refreshed
    vel_i_error,    \* self.vel_i_error (throw)
    arm_control,    \* self._arm_control, the arm rows of the effort command
    actions_set,    \* whether self.actions holds a tensor (it starts as None)
    cube_dist,      \* simulator: distance from the object to the goal
    cube_speed,     \* simulator: norm of the object's linear velocity
    finger_dist,    \* simulator: distance from the object to the finger
    eef_dist,       \* simulator: distance from the end effector to the waypoint
    go_iter,        \* go_to_pos: the loop variable i
    sub_ticks,      \* physics ticks the running primitive_step has executed
    dof_pos,        \* self._q (column 0 of _dof_state) as reset_idx last wrote it
    dof_vel,        \* self._qd (column 1 of _dof_state) as reset_idx last wrote it
    pos_control,    \* self._pos_control, the joint position targets
    init_cube_state,  \* self._init_cube_state, copied to _cube_state on reset
    goal_cube_state,  \* self._goal_cube_state
    priv_info_buf,  \* self.priv_info_buf
    proprio_hist_buf,  \* self.proprio_hist_buf, oldest slot first
    kp,             \* self.kp (push), one row of six gains per environment
    steps_elapsed,  \* self._steps_elapsed (push)
    hist            \* history of the run, read by the properties only

\* the buffers only reset_idx and the gripper command write
sampler_vars == << dof_pos, dof_vel, init_cube_state, goal_cube_state,
                   priv_info_buf, proprio_hist_buf >>

\* the controller fields pre_physics_step and primitive_step write
gain_vars == << kp, steps_elapsed >>

vars == << cfg, pc, raised, control_steps, sim_left, progress_buf, reset_buf,
           success_buf, hold_counters, contact_time, cube_contact, vel_i_error,
           arm_control, actions_set, cube_dist, cube_speed, finger_dist,
           eef_dist, go_iter, sub_ticks, dof_pos, dof_vel, pos_control,
           init_cube_state, goal_cube_state, priv_info_buf, proprio_hist_buf,
           kp, steps_elapsed, hist >>

\* the per-environment fields of the task object and of the simulator
Self ==
    [ progress_buf |-> progress_buf, reset_buf |-> reset_buf,
      success_buf |-> success_buf, hold_counters |-> hold_counters,
      contact_time |-> contact_time, cube_contact |-> cube_contact,
      vel_i_error |-> vel_i_error, arm_control |-> arm_control,
      cube_dist |-> cube_dist, cube_speed |-> cube_speed,
      finger_dist |-> finger_dist, dof_pos |-> dof_pos, dof_vel |-> dof_vel,
      pos_control |-> pos_control, init_cube_state |-> init_cube_state,
      goal_cube_state |-> goal_cube_state, priv_info_buf |-> priv_info_buf,
      proprio_hist_buf |-> proprio_hist_buf ]

Commit(s) ==
    /\ progress_buf' = s.progress_buf
    /\ reset_buf' = s.reset_buf
    /\ success_buf' = s.success_buf
    /\ hold_counters' = s.hold_counters
    /\ contact_time' = s.contact_time
    /\ cube_contact' = s.cube_contact
    /\ vel_i_error' = s.vel_i_error
    /\ arm_control' = s.arm_control
    /\ cube_dist' = s.cube_dist
    /\ cube_speed' = s.cube_speed
    /\ finger_dist' = s.finger_dist
    /\ dof_pos' = s.dof_pos
    /\ dof_vel' = s.dof_vel
    /\ pos_control' = s.pos_control
    /\ init_cube_state' = s.init_cube_state
    /\ goal_cube_state' = s.goal_cube_state
    /\ priv_info_buf' = s.priv_info_buf
    /\ proprio_hist_buf' = s.proprio_hist_buf

ZeroTorque == [j \in ArmJoints |-> Fin(0)]
ZeroError == [j \in ArmJoints |-> 0]

\* an assignment that ignores the index set and writes every row
SetRows_unindexed(f, env_ids, v) == [i \in Envs |-> v]

\* f with the rows of env_ids replaced by v
SetRows(f, env_ids, v) == [i \in Envs |-> IF i \in env_ids THEN v ELSE f[i]]

----------------------------------------------------------------------------
(* EpisodeResetSampler *)

\* element j of a tensor written as a tuple, j counted from 0
At(t, j) == t[j + 1]

\* 2.0 * noise * (torch.rand(...) - 0.5) for a draw of torch.rand in [0, 1):
\* step is 4 * (rand - 0.5), one of -2, -1, 0, 1
NoiseSteps == {-2, -1, 0, 1}
scaled_noise(noise, step) == (noise * step) \div 2

\* a pos that is not clamped to the joint limits
reset_pos_unclamped(c, step) ==
    [j \in Dofs |->
        IF j \in GripperDofs THEN At(franka_default_dof_pos(c), j)
        ELSE At(franka_default_dof_pos(c), j)
             + scaled_noise(c.frankaDofNoise, step[j])]

\* pos of reset_idx for one environment: the default pose plus the scaled
\* noise, clamped to the joint limits, then the two finger joints overwritten
\* with their defaults
reset_pos(c, step) ==
    [j \in Dofs |->
        IF j \in GripperDofs THEN At(franka_default_dof_pos(c), j)
        ELSE tensor_clamp(
                 Fin(At(franka_default_dof_pos(c), j)
                     + scaled_noise(c.frankaDofNoise, step[j])),
                 Fin(At(franka_dof_lower_limits, j)),
                 Fin(At(franka_dof_upper_limits, j))).v]

ZeroDofs == [j \in Dofs |-> 0]

\* init_shift and goal_shift of _reset_init_cube_state (push), the
\* init_x_offset and goal_x_offset of the throw task; the slide task has none
init_shift(task) == IF task = "throw" THEN << -900, 0 >> ELSE << 0, 0 >>
goal_shift(task) ==
    CASE task = "push" -> << 0, 250 >>
      [] task = "throw" -> << 2000, 0 >>
      [] OTHER -> << 0, 0 >>

\* sampled_init_cube_state of _reset_init_cube_state for one environment:
\* the throw task computes centre + offset but writes the fixed position
\* (0.216, 0)
sampled_init_cube_state(c, d) ==
    [x |-> IF c.task = "throw" THEN 216
           ELSE table_surface_xy(c.task)[1] + init_shift(c.task)[1]
                + scaled_noise(c.cubeInitPosNoise, d.obj[1]),
     y |-> IF c.task = "throw" THEN 0
           ELSE table_surface_xy(c.task)[2] + init_shift(c.task)[2]
                + scaled_noise(c.cubeInitPosNoise, d.obj[2]),
     z |-> TableSurfaceZ + CubeSize \div 2,
     quat |-> << 0, 0, 0, 1 >>]


\* a goal sampler that leaves the row as allocated
sampled_goal_cube_state_unset(c, d) ==
    [x |-> 0, y |-> 0, z |-> 0, quat |-> << 0, 0, 0, 0 >>]

\* sampled_goal_cube_state for one environment: the throw task samples
\* around the absolute point (2.0, 0)
sampled_goal_cube_state(c, d) ==
    [x |-> (IF c.task = "throw" THEN 2000
            ELSE table_surface_xy(c.task)[1] + goal_shift(c.task)[1])
           + scaled_noise(c.cubeGoalPosNoise, d.goal[1]),
     y |-> (IF c.task = "throw" THEN 0
            ELSE table_surface_xy(c.task)[2] + goal_shift(c.task)[2])
           + scaled_noise(c.cubeGoalPosNoise, d.goal[2]),
     z |-> TableSurfaceZ + CubeSize \div 2,
     quat |-> << 0, 0, 0, 1 >>]

\* the values _store_priv_info writes to columns 0, 1, ... of a row
priv_params(task, props) ==
    IF task = "slide"
    THEN << props.mass, props.friction, props.com[1], props.com[2], props.com[3] >>
    ELSE << props.friction >>

\* _store_priv_info indexes a column the buffer does not have
store_priv_info_raises(c) ==
    c.randomize /\ Len(priv_params(c.task, [mass |-> 0, friction |-> 0,
                                            com |-> << 0, 0, 0 >>])) > c.privInfoDim

\* _store_priv_info(env_ids): one environment after the other, one column
\* after the other; the first column the buffer lacks ends the call
store_priv_info(c, env_ids, draw, buf) ==
    LET first == CHOOSE i \in env_ids : \A k \in env_ids : i <= k
        row(i) == [k \in 0 .. (c.privInfoDim - 1) |->
                     IF k < Len(priv_params(c.task, draw[i].props))
                     THEN At(priv_params(c.task, draw[i].props), k)
                     ELSE buf[i][k]]
    IN [i \in Envs |->
          IF i \in env_ids /\ (~store_priv_info_raises(c) \/ i = first)
          THEN row(i) ELSE buf[i]]

\* reset_idx is left by the exception of _store_priv_info
reset_idx_raises(c, env_ids) == env_ids # {} /\ store_priv_info_raises(c)

\* a reset_idx that leaves the hold counter and the contact timer as they were
reset_idx_keeps_counters(c, env_ids, draw, s) ==
    [ s EXCEPT
        !.priv_info_buf = IF c.randomize
                          THEN store_priv_info(c, env_ids, draw, @) ELSE @,
        !.init_cube_state = [i \in Envs |->
            IF i \in env_ids THEN sampled_init_cube_state(c, draw[i]) ELSE @[i]],
        !.goal_cube_state = [i \in Envs |->
            IF i \in env_ids THEN sampled_goal_cube_state(c, draw[i]) ELSE @[i]],
        !.dof_pos = [i \in Envs |->
            IF i \in env_ids THEN reset_pos(c, draw[i].dof) ELSE @[i]],
        !.dof_vel = SetRows(@, env_ids, ZeroDofs),
        !.pos_control = [i \in Envs |->
            IF i \in env_ids THEN reset_pos(c, draw[i].dof) ELSE @[i]],
        !.cube_dist = [i \in Envs |-> IF i \in env_ids THEN draw[i].dist ELSE @[i]],
        !.cube_speed = SetRows(@, env_ids, 0),
        !.finger_dist = [i \in Envs |-> IF i \in env_ids THEN draw[i].finger ELSE @[i]],
        !.arm_control = SetRows(@, env_ids, ZeroTorque),
        !.progress_buf = SetRows(@, env_ids, 0),
        !.reset_buf = SetRows(@, env_ids, 0) ]

\* a reset_idx that copies the stored object and goal rows without sampling
\* them again
reset_idx_stale_object(c, env_ids, draw, s) ==
    [ s EXCEPT
        !.priv_info_buf = IF c.randomize /\ env_ids # {}
                          THEN store_priv_info(c, env_ids, draw, @) ELSE @,
        !.dof_pos = [i \in Envs |->
            IF i \in env_ids THEN reset_pos(c, draw[i].dof) ELSE @[i]],
        !.dof_vel = SetRows(@, env_ids, ZeroDofs),
        !.pos_control = [i \in Envs |->
            IF i \in env_ids THEN reset_pos(c, draw[i].dof) ELSE @[i]],
        !.cube_dist = [i \in Envs |-> IF i \in env_ids THEN draw[i].dist ELSE @[i]],
        !.cube_speed = SetRows(@, env_ids, 0),
        !.finger_dist = [i \in Envs |-> IF i \in env_ids THEN draw[i].finger ELSE @[i]],
        !.arm_control = SetRows(@, env_ids, ZeroTorque),
        !.progress_buf = SetRows(@, env_ids, 0),
        !.reset_buf = SetRows(@, env_ids, 0),
        !.hold_counters = IF c.task = "push" THEN SetRows(@, env_ids, 0) ELSE @,
        !.contact_time = IF c.task = "throw" THEN SetRows(@, env_ids, 0) ELSE @ ]

\* reset_idx(env_ids) of the three tasks. draw gives, per environment, the
\* random numbers of the call (dof, obj, goal), the physical properties the
\* simulator reports (props) and the object-to-goal and object-to-finger
\* distance the simulator reports after the reset (dist, finger)
reset_idx(c, env_ids, draw, s) ==
    IF reset_idx_raises(c, env_ids)
    THEN [ s EXCEPT !.priv_info_buf = store_priv_info(c, env_ids, draw, @) ]
    ELSE
    [ s EXCEPT
        !.priv_info_buf = IF c.randomize /\ env_ids # {}
                          THEN store_priv_info(c, env_ids, draw, @) ELSE @,
        !.init_cube_state = [i \in Envs |->
            IF i \in env_ids THEN sampled_init_cube_state(c, draw[i]) ELSE @[i]],
        !.goal_cube_state = [i \in Envs |->
            IF i \in env_ids THEN sampled_goal_cube_state(c, draw[i]) ELSE @[i]],
        !.dof_pos = [i \in Envs |->
            IF i \in env_ids THEN reset_pos(c, draw[i].dof) ELSE @[i]],
        !.dof_vel = SetRows(@, env_ids, ZeroDofs),
        !.pos_control = [i \in Envs |->
            IF i \in env_ids THEN reset_pos(c, draw[i].dof) ELSE @[i]],
        !.cube_dist = [i \in Envs |-> IF i \in env_ids THEN draw[i].dist ELSE @[i]],
        !.cube_speed = SetRows(@, env_ids, 0),
        !.finger_dist = [i \in Envs |-> IF i \in env_ids THEN draw[i].finger ELSE @[i]],
        !.arm_control = SetRows(@, env_ids, ZeroTorque),
        !.progress_buf = SetRows(@, env_ids, 0),
        !.reset_buf = SetRows(@, env_ids, 0),
        !.hold_counters = IF c.task = "push" THEN SetRows(@, env_ids, 0) ELSE @,
        !.contact_time = IF c.task = "throw" THEN SetRows(@, env_ids, 0) ELSE @ ]

----------------------------------------------------------------------------
(* StateProjector *)

\* an _update_states that also counts the refresh as an episode step
update_states_counts_step(task, s) ==
    [ s EXCEPT
        !.progress_buf = [i \in Envs |-> @[i] + 1],
        !.hold_counters = IF task = "push"
            THEN [i \in Envs |-> IF s.cube_dist[i] < SuccessThreshold
                                 THEN @[i] + 1 ELSE 0]
            ELSE @,
        !.cube_contact = s.finger_dist ]

\* an _update_states that also counts a distance equal to the threshold
update_states_inclusive(task, s) ==
    [ s EXCEPT
        !.hold_counters = IF task = "push"
            THEN [i \in Envs |-> IF s.cube_dist[i] <= SuccessThreshold
                                 THEN @[i] + 1 ELSE 0]
            ELSE @,
        !.cube_contact = s.finger_dist ]

\* _update_states: the push task steps its hold counter; every task
\* recomputes the object-to-finger difference
update_states(task, s) ==
    [ s EXCEPT
        !.hold_counters = IF task = "push"
            THEN [i \in Envs |-> IF s.cube_dist[i] < SuccessThreshold
                                 THEN @[i] + 1 ELSE 0]
            ELSE @,
        !.cube_contact = s.finger_dist ]

----------------------------------------------------------------------------
(* RewardEngine *)

\* a success condition that fires one tick early (>= for >)
success_condition_early(task, n_hold_steps, s, i) ==
    CASE task = "push" -> s.hold_counters[i] >= n_hold_steps
      [] task = "slide" -> s.cube_dist[i] < SuccessThreshold
      [] task = "throw" -> /\ s.cube_speed[i] < TerminalVelocityThreshold
                           /\ s.cube_dist[i] < SuccessThreshold
                           /\ s.progress_buf[i] > 0

\* a success condition of the throw task without the progress_buf > 0 term
success_condition_any_step(task, n_hold_steps, s, i) ==
    CASE task = "push"  -> s.hold_counters[i] > n_hold_steps
      [] task = "slide" -> s.cube_dist[i] < SuccessThreshold
      [] task = "throw" -> /\ s.cube_speed[i] < TerminalVelocityThreshold
                           /\ s.cube_dist[i] < SuccessThreshold

\* success_condition of compute_franka_reward, per environment
success_condition(task, n_hold_steps, s, i) ==
    CASE task = "push"  -> s.hold_counters[i] > n_hold_steps
      [] task = "slide" -> s.cube_dist[i] < SuccessThreshold
      [] task = "throw" -> /\ s.cube_speed[i] < TerminalVelocityThreshold
                           /\ s.cube_dist[i] < SuccessThreshold
                           /\ s.progress_buf[i] > 0

\* a termination rule that compares with max_episode_length itself
reset_flag_late(task, L, n_hold_steps, s, i) ==
    IF s.progress_buf[i] >= L \/ success_condition(task, n_hold_steps, s, i)
    THEN 1 ELSE s.reset_buf[i]

\* a termination rule that ignores the incoming reset flag
reset_flag_fresh(task, L, n_hold_steps, s, i) ==
    IF s.progress_buf[i] >= L - 1 \/ success_condition(task, n_hold_steps, s, i)
    THEN 1 ELSE 0

\* the reset flag compute_franka_reward returns, per environment
reset_flag(task, L, n_hold_steps, s, i) ==
    IF s.progress_buf[i] >= L - 1 \/ success_condition(task, n_hold_steps, s, i)
    THEN 1 ELSE s.reset_buf[i]

\* the exception compute_franka_reward ends with, "" when it returns:
\* the slide task reads a coefficient its reward_settings lacks; the push task
\* subtracts actions[:, 1:] from actions, which broadcasts only for width 2 and
\* is unused, so it raises unless the script compiler drops it as dead code
reward_raises(c, has_actions) ==
    IF ~has_actions THEN "TypeError"
    ELSE IF c.task = "slide" /\ "r_vel_scale" \notin reward_settings_keys(c.task)
    THEN "KeyError"
    ELSE IF c.task = "push" /\ numActions(c) # 2 /\ ~c.jitDropsDeadCode
    THEN "RuntimeError"
    ELSE ""

\* compute_reward: writes reset_buf and extras['success'] unless the reward
\* function raises
compute_reward(c, s) ==
    [ s EXCEPT
        !.reset_buf = [i \in Envs |->
            reset_flag(c.task, c.episodeLength, c.nHoldSteps, s, i)],
        !.success_buf = [i \in Envs |->
            success_condition(c.task, c.nHoldSteps, s, i)] ]

----------------------------------------------------------------------------
(* ControlLawEngine *)

\* a < b on floating-point values; false when either is NaN
FLess(a, b) == a.k # "nan" /\ b.k # "nan" /\ a # b /\ FLeq(a, b)

\* the clamp at the end of _compute_osc_torques and _compute_jvel_torques
clamp_to_effort_limits(u) ==
    [j \in ArmJoints |->
        tensor_clamp(u[j], Fin(0 - franka_effort_limits[j]),
                     Fin(franka_effort_limits[j]))]

\* _compute_osc_torques for one environment. unclamped is the value of
\* J^T M_eef (kp dpose - kd twist) + nullspace term: finite when M and
\* J M^-1 J^T are invertible, non-finite when torch.inverse returned
\* non-finite entries for a singular matrix
compute_osc_torques(unclamped) ==
    clamp_to_effort_limits([j \in ArmJoints |-> unclamped])

\* the six task-space components of dpose, kp and cmd_limit
PoseDims == 1 .. 6

\* self.kp as __init__ leaves it: 200 everywhere, 500 on the three rotational
\* components in primitive mode
default_kp(c) ==
    [k \in PoseDims |->
        IF c.task = "push" /\ c.controlInput = "primitive" /\ k > 3
        THEN 500 ELSE 200]

\* kp_min + (kp_max - kp_min) * sigmoid(gain logits); every gain logit of the
\* action row has the value g
variable_kp(c, g) ==
    [k \in PoseDims |-> c.kpMin + ((c.kpMax - c.kpMin) * sigmoid(g)) \div 1000]

\* self.kp when _compute_osc_torques is called in pre_physics_step
next_kp(c, g, old) == IF c.variableImpedance THEN variable_kp(c, g) ELSE old

\* self.cmd_limit under "osc": 0.1 m and 0.5 rad, in millimetres and
\* milliradians (action_scale is 1)
cmd_limit(k) == IF k <= 3 THEN 100 ELSE 500

\* the number of leading action components that command the pose
pose_width(c) ==
    CASE c.controlInput = "pose2d" -> 2
      [] c.controlInput = "pose3d" -> 3
      [] OTHER -> 6

\* an orientation error that is ramped in over the calls
ori_error_ramped(steps, ori) == steps * ori

\* the orientation error of pose2d and pose3d: zero on the first call,
\* angle * axis of quat_desired * conj(eef_quat) afterwards
ori_error(steps, ori) == IF steps = 0 THEN 0 ELSE ori

\* the noise added to the pose action: a torch.normal draw when
\* add_action_noise is set
action_noise(c, draw) == IF c.addActionNoise THEN draw ELSE 0

\* dpose of pre_physics_step for one environment. o.pose: the value of every
\* pose component of the action; o.noise: the torch.normal draw; o.z: the
\* height error of pose2d; o.ori: every component of angle * axis
dpose(c, o, steps) ==
    [k \in PoseDims |->
        IF k <= pose_width(c)
        THEN (o.pose + action_noise(c, o.noise)) * cmd_limit(k)
        ELSE IF c.controlInput = "pose2d" /\ k = 3 THEN o.z
        ELSE ori_error(steps, o.ori)]

\* kp * dpose - kd * eef_vel with kd = 2 * sqrt(kp), in N and N m (kp in
\* N/m, dpose in millimetres); o.vel is every component of eef_vel
osc_wrench(c, o, gains, steps) ==
    [k \in PoseDims |->
        (gains[k] * dpose(c, o, steps)[k] - 2 * sqrt(gains[k]) * o.vel) \div 1000]

\* the unclamped torque of one environment: the wrench, carried to the
\* joints by J^T M_eef (taken as the map of component k to joint k - 1), plus
\* x.u, the nullspace term and the outcome of the two torch.inverse calls
osc_unclamped(c, x, o, gains, steps) ==
    [j \in ArmJoints |->
        IF j + 1 \in PoseDims
        THEN FAdd(Fin(osc_wrench(c, o, gains, steps)[j + 1]), x.u)
        ELSE x.u]

\* vel_error of _compute_jvel_torques: commanded minus measured velocity for
\* the controlled joints, minus the measured velocity for the others
vel_error(jvel, qd) ==
    [j \in ArmJoints |-> IF j \in controlled_joints THEN jvel[j] - qd[j]
                         ELSE 0 - qd[j]]

\* an accumulator with anti-windup: it stops while the torque is saturated
integrate_anti_windup(i_error, err) ==
    [j \in ArmJoints |->
        IF KpVel * err[j] + KiVel * (i_error[j] + err[j]) > franka_effort_limits[j]
        THEN i_error[j] ELSE i_error[j] + err[j]]

\* self.vel_i_error += vel_error
integrate(i_error, err) == [j \in ArmJoints |-> i_error[j] + err[j]]

\* _compute_jvel_torques for one environment, given the updated accumulator
compute_jvel_torques(err, i_error) ==
    clamp_to_effort_limits(
        [j \in ArmJoints |-> Fin(KpVel * err[j] + KiVel * i_error[j])])

\* joint_cmd of the throw task's pre_physics_step: the arm action on the
\* controlled joints, zero elsewhere, scaled by cmd_limit (the effort limits
\* unless control_type is "osc") over action_scale (taken as 1)
joint_cmd(a) ==
    [j \in ArmJoints |-> IF j \in controlled_joints
                         THEN a * franka_effort_limits[j] ELSE 0]

\* whether two trailing tensor dimensions broadcast
Broadcasts(m, n) == m = n \/ m = 1 \/ n = 1

\* width of self.kp: 6 in the push task, 15 in the slide task
kp_width(task) == IF task = "slide" THEN 15 ELSE 6

\* width of self.cmd_limit: the six pose limits under "osc", the seven
\* effort limits otherwise
cmd_limit_width(c) == IF c.controlType = "osc" THEN 6 ELSE NumArmJoints

\* the exception pre_physics_step ends with before any torque is written,
\* "" when it reaches the control law
control_raises(c) ==
    CASE c.task = "push" ->
           IF c.controlType # "osc" THEN "UnboundLocalError"
           ELSE IF c.controlInput \notin {"pose2d", "pose3d", "pose6d"}
           THEN "UnboundLocalError"
           ELSE IF c.controlInput = "pose2d" /\ c.variableImpedance
           THEN "RuntimeError"
           ELSE ""
      [] c.task = "slide" ->
           IF c.controlInput = "pose3d"
           THEN IF c.controlType = "osc"
                THEN IF Broadcasts(kp_width(c.task), 6) THEN "" ELSE "RuntimeError"
                ELSE IF Broadcasts(NumArmJoints, 3) THEN "" ELSE "RuntimeError"
           ELSE IF ~Broadcasts(numActions(c), cmd_limit_width(c)) THEN "RuntimeError"
           ELSE IF c.controlType = "osc" THEN "UnboundLocalError"
           ELSE IF Broadcasts(NumArmJoints, numActions(c)) THEN "" ELSE "RuntimeError"
      [] c.task = "throw" ->
           IF ~Broadcasts(NumArmJoints, cmd_limit_width(c)) THEN "RuntimeError"
           ELSE IF c.controlType = "jvel" THEN ""
           ELSE "AttributeError"

\* the assertions of __init__: "" when construction goes on
init_raises(c) ==
    CASE c.task = "push" ->
           IF c.controlType \notin {"osc", "joint_tor"} THEN "AssertionError"
           ELSE IF c.controlInput = "primitive" /\ c.variableImpedance
           THEN "AssertionError"
           ELSE ""
      [] c.task = "slide" ->
           IF c.controlType \notin {"osc", "joint_tor"} THEN "AssertionError"
           ELSE ""
      [] c.task = "throw" ->
           IF c.controlType \notin {"osc", "jvel"} THEN "AssertionError"
           ELSE ""

\* step() runs the scripted primitive instead of pre_physics_step
is_primitive(c) == c.task = "push" /\ c.controlInput = "primitive"

----------------------------------------------------------------------------
(* History of the run, kept beside the program state for the properties:   *)
(* the state right after the last reset_idx call, the control commands and  *)
(* physics advances since the last reward evaluation, and the per-tick      *)
(* count of consecutive within-threshold ticks; post_flags and post_resets  *)
(* are the environments flagged on entry to the last post_physics_step call *)
(* and the environments that call passed to reset_idx; jvel and qd are the  *)
(* commanded and measured joint velocities of the last _compute_jvel_torques*)
(* call; draw holds the inputs of the last reset_idx call made on its own;  *)
(* step_hold is the hold counter on entry to the last step() call.          *)

NoSnap == [progress_buf |-> -1, reset_buf |-> -1, hold_counters |-> -1,
           contact_time |-> -1, vel_i_error |-> ZeroError]

Snap(s, env_ids) ==
    [i \in Envs |->
        IF i \in env_ids
        THEN [progress_buf |-> s.progress_buf[i], reset_buf |-> s.reset_buf[i],
              hold_counters |-> s.hold_counters[i],
              contact_time |-> s.contact_time[i],
              vel_i_error |-> s.vel_i_error[i]]
        ELSE NoSnap]

HistInit ==
    [reset_ids |-> {}, after_reset |-> [i \in Envs |-> NoSnap],
     ctrl_since |-> 0, sim_since |-> 0,
     lag_ctrl |-> -1, lag_sim |-> -1,
     streak |-> [i \in Envs |-> -1],
     no_success |-> TRUE, reset_in |-> [i \in Envs |-> 0],
     flagged |-> {}, constructed |-> FALSE, singular |-> FALSE,
     raised_in |-> "", post_flags |-> {}, post_resets |-> {},
     jvel |-> [i \in Envs |-> ZeroError], qd |-> [i \in Envs |-> 0],
     draw |-> << >>,
     osc_in |-> << >>, osc_noise |-> << >>, osc_steps |-> -1, osc_out |-> << >>,
     osc_prev |-> << >>,
     step_hold |-> [i \in Envs |-> -1],
     null_err |-> [i \in Envs |-> [j \in ArmJoints |-> 0]],
     obj_log |-> [i \in Envs |-> << >>]]

\* the history on entry to a step() call
StepStart == [hist EXCEPT !.step_hold = hold_counters]

\* consecutive within-threshold ticks of environment i, counted from the last
\* tick at which its hold counter was 0 (-1 while no such tick has happened)
NextStreak(old, zeroed, within) ==
    IF ~within THEN 0
    ELSE IF zeroed THEN 1
    ELSE IF old = -1 THEN -1
    ELSE old + 1

----------------------------------------------------------------------------
(* Task lifecycle: __init__, step() = pre_physics_step, gym.simulate,       *)
(* post_physics_step                                                        *)

Raise(err) == pc' = "raised" /\ raised' = err

\* the part of a batch input that concerns the environments of env_ids
Restrict(d, env_ids) == [i \in env_ids |-> d[i]]

\* __init__: the selector assertions, reset_idx on every environment, then
\* one _refresh
Construct(DB) ==
    /\ pc = "new"
    /\ IF init_raises(cfg) # ""
       THEN /\ Raise(init_raises(cfg))
            /\ hist' = [hist EXCEPT !.raised_in = "init"]
            /\ UNCHANGED << progress_buf, reset_buf, success_buf, hold_counters,
                            contact_time, cube_contact, vel_i_error,
                            arm_control, cube_dist, cube_speed, finger_dist,
                            pos_control, sampler_vars, gain_vars >>
       ELSE \E draw \in DB :
              /\ kp' = [i \in Envs |-> default_kp(cfg)]
              /\ steps_elapsed' = 0
              /\ LET s1 == reset_idx(cfg, Envs, draw, Self)
                     s2 == update_states(cfg.task, s1)
                 IN IF reset_idx_raises(cfg, Envs)
                    THEN /\ Commit(s1)
                         /\ Raise("IndexError")
                         /\ hist' = [hist EXCEPT !.raised_in = "reset"]
                    ELSE /\ Commit(s2)
                         /\ pc' = "idle"
                         /\ raised' = raised
                         /\ hist' = [hist EXCEPT
                               !.constructed = TRUE,
                               !.reset_ids = Envs,
                               !.after_reset = Snap(s1, Envs),
                               !.streak = [i \in Envs |->
                                   IF cfg.task = "push" /\ s2.hold_counters[i] = 0
                                   THEN 0 ELSE -1]]
    /\ UNCHANGED << cfg, control_steps, sim_left, actions_set, eef_dist,
                    go_iter, sub_ticks >>

\* the torque written by the operational-space law for a batch: x[i].u is the
\* unclamped torque of environment i
osc_command(x) == [i \in Envs |-> compute_osc_torques(x[i].u)]

\* the gripper command of the throw task: both finger targets at their upper
\* limit when the gripper action is >= 0, at their lower limit otherwise
u_fingers(u_gripper, row) ==
    [j \in Dofs |->
        IF j \in GripperDofs
        THEN IF u_gripper >= 0 THEN At(franka_dof_upper_limits, j)
             ELSE At(franka_dof_lower_limits, j)
        ELSE row[j]]

\* pre_physics_step of the throw task under "jvel"; every component of the
\* action row of environment i has the value a[i]
jvel_step(a, qd, s) ==
    LET err == [i \in Envs |-> vel_error(joint_cmd(a[i]), [j \in ArmJoints |-> qd[i]])]
        acc == [i \in Envs |-> integrate(s.vel_i_error[i], err[i])]
    IN [s EXCEPT !.vel_i_error = acc,
                 !.arm_control = [i \in Envs |-> compute_jvel_torques(err[i], acc[i])],
                 !.pos_control = [i \in Envs |-> u_fingers(a[i], @[i])]]

\* pre_physics_step, called by step() outside primitive mode.
\* XB: the outcomes of the matrix inversions and the unclamped torque per
\* environment; AB: arm actions; QB: measured joint velocities; OB: the pose
\* action, gain logit, noise draw and end-effector errors per environment
PrePhysicsStep(XB, AB, QB, OB) ==
    /\ pc = "idle"
    /\ control_steps < MaxSteps
    /\ ~is_primitive(cfg)
    /\ actions_set' = TRUE
    /\ IF control_raises(cfg) # ""
       THEN /\ Raise(control_raises(cfg))
            /\ hist' = [StepStart EXCEPT !.raised_in = "control"]
            /\ UNCHANGED << vel_i_error, arm_control, sim_left, pos_control,
                            gain_vars >>
       ELSE IF cfg.controlType = "jvel"
       THEN \E a \in AB, qd \in QB :
              LET s1 == jvel_step(a, qd, Self)
              IN /\ vel_i_error' = s1.vel_i_error
                 /\ arm_control' = s1.arm_control
                 /\ pos_control' = s1.pos_control
                 /\ pc' = "sim"
                 /\ raised' = raised
                 /\ sim_left' = cfg.controlFreqInv
                 /\ hist' = [StepStart EXCEPT
                       !.ctrl_since = @ + 1,
                       !.jvel = [i \in Envs |-> joint_cmd(a[i])],
                       !.qd = qd]
                 /\ UNCHANGED gain_vars
       ELSE \E x \in XB, o \in OB :
              LET gains == [i \in Envs |-> next_kp(cfg, o[i].gain, kp[i])]
                  h1 == [StepStart EXCEPT
                           !.osc_in = [x |-> x, pose |-> [i \in Envs |-> o[i].pose],
                                       gain |-> [i \in Envs |-> o[i].gain],
                                       z |-> [i \in Envs |-> o[i].z],
                                       ori |-> [i \in Envs |-> o[i].ori],
                                       vel |-> [i \in Envs |-> o[i].vel]],
                           !.osc_noise = [i \in Envs |-> o[i].noise],
                           !.osc_steps = steps_elapsed,
                           !.osc_prev = [in |-> hist.osc_in, steps |-> hist.osc_steps,
                                         out |-> hist.osc_out]]
              IN /\ kp' = gains
                 /\ steps_elapsed' = IF cfg.task = "push" /\ pose_width(cfg) < 6
                                      THEN steps_elapsed + 1 ELSE steps_elapsed
                 /\ IF \E i \in Envs : x[i].raises
                    THEN /\ Raise("RuntimeError")
                         /\ hist' = [StepStart EXCEPT !.singular = TRUE,
                                                  !.raised_in = "inverse"]
                         /\ UNCHANGED << vel_i_error, arm_control, sim_left,
                                         pos_control >>
                    ELSE /\ arm_control' = [i \in Envs |->
                               clamp_to_effort_limits(
                                   osc_unclamped(cfg, x[i], o[i], gains[i],
                                                 steps_elapsed))]
                         /\ pc' = "sim"
                         /\ raised' = raised
                         /\ sim_left' = cfg.controlFreqInv
                         /\ hist' = [h1 EXCEPT
                               !.ctrl_since = @ + 1,
                               !.singular = @ \/ \E i \in Envs : x[i].singular,
                               !.osc_out = [i \in Envs |->
                                   clamp_to_effort_limits(
                                       osc_unclamped(cfg, x[i], o[i], gains[i],
                                                     steps_elapsed))]]
                         /\ UNCHANGED << vel_i_error, pos_control >>
    /\ UNCHANGED << cfg, control_steps, progress_buf, reset_buf, success_buf,
                    hold_counters, contact_time, cube_contact, cube_dist,
                    cube_speed, finger_dist, eef_dist, go_iter, sub_ticks,
                    sampler_vars >>

\* one gym.simulate call of step(): the simulator moves the cube and the
\* gripper; PB is the set of outcomes for the batch
Simulate(PB) ==
    /\ pc = "sim"
    /\ \E o \in PB :
         /\ cube_dist' = [i \in Envs |-> o[i].dist]
         /\ cube_speed' = [i \in Envs |-> o[i].speed]
         /\ finger_dist' = [i \in Envs |-> o[i].finger]
    /\ sim_left' = sim_left - 1
    /\ pc' = IF sim_left = 1 THEN "post" ELSE "sim"
    /\ hist' = [hist EXCEPT !.sim_since = @ + 1]
    /\ UNCHANGED << cfg, raised, control_steps, progress_buf, reset_buf,
                    success_buf, hold_counters, contact_time, cube_contact,
                    vel_i_error, arm_control, actions_set, eef_dist, go_iter,
                    sub_ticks, pos_control, sampler_vars, gain_vars >>

\* a contact timer that falls back to 0 when contact is lost
contact_update_consecutive(task, s) ==
    IF task = "throw"
    THEN [s EXCEPT !.contact_time =
            [i \in Envs |->
                (IF s.cube_contact[i] < ContactThreshold THEN @[i] + 1 ELSE 0)
                * (1 - s.reset_buf[i])]]
    ELSE s

\* the contact timer update at the top of the throw task's post_physics_step
contact_update(task, s) ==
    IF task = "throw"
    THEN [s EXCEPT !.contact_time =
            [i \in Envs |->
                (@[i] + (IF s.cube_contact[i] < ContactThreshold THEN 1 ELSE 0))
                * (1 - s.reset_buf[i])]]
    ELSE s

\* a reset of the whole batch as soon as one environment is flagged
reset_env_ids_batch(c, s) ==
    IF \E i \in Envs : s.reset_buf[i] # 0 THEN Envs ELSE {}

\* the environments post_physics_step resets when it ignores the primitive
\* one-step exception
reset_env_ids_flagged(c, s) == {i \in Envs : s.reset_buf[i] # 0}

\* the environments post_physics_step resets
reset_env_ids(c, s) ==
    IF is_primitive(c) /\ c.episodeLength = 1 THEN Envs
    ELSE {i \in Envs : s.reset_buf[i] # 0}

\* the history buffer as allocated: propHistLen slots of propDim zeros
AllocatedHistory(c) ==
    [i \in Envs |-> [t \in 1 .. c.propHistLen |-> [k \in 1 .. c.propDim |-> 0]]]

\* cube_pos and cube_quat of environment i as last refreshed: the object
\* lies on the table, unrotated, at its distance from the goal
cube_states(s, i) ==
    << s.cube_dist[i], 0, TableSurfaceZ + CubeSize \div 2, 0, 0, 0, 1 >>

\* cube_states followed by zeros up to the buffer width
padded(row, width) == [k \in 1 .. width |-> IF k <= Len(row) THEN row[k] ELSE 0]

\* a roll of the slots by one towards the newest end (shifts=+1)
roll_towards_newest(b) == << b[Len(b)] >> \o SubSeq(b, 1, Len(b) - 1)

\* torch.roll(buf, shifts=-1, dims=1) on the slots of one environment
roll(b) == Append(Tail(b), Head(b))

\* store_proprio_hist raises when the object state is wider than the buffer
store_proprio_hist_raises(c) == NumCubeStates > c.propDim

\* store_proprio_hist: roll every environment's slots, then overwrite the
\* last slot with the padded object state
store_proprio_hist(c, s) ==
    [ s EXCEPT !.proprio_hist_buf =
        [i \in Envs |->
            [roll(@[i]) EXCEPT ![c.propHistLen] =
                padded(cube_states(s, i), c.propDim)]] ]

\* the last n entries of a sequence
LastN(q, n) == IF Len(q) <= n THEN q ELSE SubSeq(q, Len(q) - n + 1, Len(q))

\* post_physics_step and the end of step(): progress, resets of the flagged
\* environments, compute_observations, compute_reward, store_proprio_hist
PostPhysicsStep(DB) ==
    /\ pc = "post"
    /\ LET s1 == [Self EXCEPT !.progress_buf = [i \in Envs |-> @[i] + 1]]
           s2 == contact_update(cfg.task, s1)
           env_ids == reset_env_ids(cfg, s2)
       IN \E draw \in {Restrict(d, env_ids) : d \in DB} :
            LET s3 == IF env_ids # {}
                      THEN reset_idx(cfg, env_ids, draw, s2) ELSE s2
                s4 == update_states(cfg.task, s3)
                s5 == compute_reward(cfg, s4)
                s6 == store_proprio_hist(cfg, s5)
                h0 == [hist EXCEPT
                         !.post_flags = {i \in Envs : reset_buf[i] # 0},
                         !.post_resets = env_ids]
                h1 == IF env_ids # {}
                      THEN [h0 EXCEPT !.reset_ids = env_ids,
                                        !.flagged = {i \in Envs : reset_buf[i] # 0},
                                        !.after_reset = Snap(s3, env_ids),
                                        !.lag_ctrl = hist.ctrl_since,
                                        !.lag_sim = hist.sim_since]
                      ELSE h0
            IN IF reset_idx_raises(cfg, env_ids)
               THEN /\ Commit(s3)
                    /\ Raise("IndexError")
                    /\ hist' = [h0 EXCEPT !.raised_in = "reset"]
                    /\ UNCHANGED control_steps
               ELSE IF reward_raises(cfg, actions_set) # ""
               THEN /\ Commit(s4)
                    /\ Raise(reward_raises(cfg, actions_set))
                    /\ hist' = [h1 EXCEPT !.raised_in = "reward"]
                    /\ UNCHANGED control_steps
               ELSE IF store_proprio_hist_raises(cfg)
               THEN /\ Commit(s5)
                    /\ Raise("ValueError")
                    /\ hist' = [h1 EXCEPT !.raised_in = "proprio"]
                    /\ UNCHANGED control_steps
               ELSE /\ Commit(s6)
                    /\ pc' = "idle"
                    /\ raised' = raised
                    /\ control_steps' = control_steps + 1
                    /\ hist' = [h1 EXCEPT
                          !.obj_log = [i \in Envs |->
                              LastN(Append(@[i], cube_states(s5, i)),
                                    cfg.propHistLen)],
                          !.ctrl_since = 0, !.sim_since = 0,
                          !.reset_in = s4.reset_buf,
                          !.no_success = @ /\ \A i \in Envs : ~s5.success_buf[i],
                          !.streak = [i \in Envs |->
                              NextStreak(@[i], i \in env_ids,
                                         s3.cube_dist[i] < SuccessThreshold)]]
    /\ UNCHANGED << cfg, sim_left, actions_set, eef_dist, go_iter, sub_ticks,
                    gain_vars >>

----------------------------------------------------------------------------
(* Scripted primitive: primitive_step drives go_to_pos twice *)

\* a convergence test that passes as soon as one environment is within epsilon
converged_any(dist, epsilon) ==
    \E i \in Envs : FLess(Fin(dist[i]), epsilon)

\* the break test of go_to_pos: every environment within epsilon of the target
converged(dist, epsilon) ==
    \A i \in Envs : FLess(Fin(dist[i]), epsilon)

\* epsilon and max_steps of the two go_to_pos calls of primitive_step
go_epsilon(stage) == IF stage = "go1" THEN Fin(GoToPosEpsilon) ELSE NInf
go_max_steps(stage) == IF stage = "go1" THEN GoToPosMaxSteps ELSE PushMaxSteps

\* where primitive_step goes on when a go_to_pos call returns
after_go(stage) == IF stage = "go1" THEN "go2" ELSE "post"

\* step() in primitive mode up to the first go_to_pos call; EB: distances of
\* the end effector to the target of the call, per environment
PrimitiveStep(EB) ==
    /\ pc = "idle"
    /\ control_steps < MaxSteps
    /\ is_primitive(cfg)
    /\ pc' = "go1"
    /\ go_iter' = 0
    /\ sub_ticks' = 0
    /\ \E e \in EB : eef_dist' = e
    /\ steps_elapsed' = steps_elapsed + 1
    /\ hist' = StepStart
    /\ UNCHANGED << cfg, raised, control_steps, sim_left, progress_buf,
                    reset_buf, success_buf, hold_counters, contact_time,
                    cube_contact, vel_i_error, arm_control, actions_set,
                    cube_dist, cube_speed, finger_dist, pos_control,
                    sampler_vars, kp >>

\* one iteration of the loop of go_to_pos: _refresh, the break test, the
\* operational-space command, gym.simulate, _update_states; after the last
\* iteration or a break the call returns to primitive_step
GoToPos(EB, XB, PB) ==
    /\ pc \in {"go1", "go2"}
    /\ LET s1 == update_states(cfg.task, Self)
       IN IF converged(eef_dist, go_epsilon(pc))
          THEN /\ Commit(s1)
               /\ pc' = after_go(pc)
               /\ go_iter' = 0
               /\ \E e \in EB : eef_dist' = e
               /\ UNCHANGED << raised, sub_ticks, hist >>
          ELSE \E x \in XB, e \in EB, o \in PB :
                 IF \E i \in Envs : x[i].raises
                 THEN /\ Commit(s1)
                      /\ Raise("RuntimeError")
                      /\ hist' = [hist EXCEPT !.singular = TRUE,
                                               !.raised_in = "inverse"]
                      /\ UNCHANGED << go_iter, sub_ticks, eef_dist >>
                 ELSE LET s2 == [s1 EXCEPT
                                   !.arm_control = osc_command(x),
                                   !.cube_dist = [i \in Envs |-> o[i].dist],
                                   !.cube_speed = [i \in Envs |-> o[i].speed],
                                   !.finger_dist = [i \in Envs |-> o[i].finger]]
                      IN /\ Commit(update_states(cfg.task, s2))
                         /\ eef_dist' = e
                         /\ sub_ticks' = sub_ticks + 1
                         /\ raised' = raised
                         /\ hist' = [hist EXCEPT
                               !.ctrl_since = @ + 1, !.sim_since = @ + 1,
                               !.singular = @ \/ \E i \in Envs : x[i].singular]
                         /\ IF go_iter + 1 = go_max_steps(pc)
                            THEN pc' = after_go(pc) /\ go_iter' = 0
                            ELSE pc' = pc /\ go_iter' = go_iter + 1
    /\ UNCHANGED << cfg, control_steps, sim_left, actions_set, gain_vars >>

----------------------------------------------------------------------------
(* Inputs of the lifecycle specification *)

\* cube-to-goal distances: just inside the success threshold and on it
DistVals == {SuccessThreshold - 1, SuccessThreshold}

\* what one physics advance can leave behind, per environment
Physics(task) ==
    IF task = "throw"
    THEN {[dist |-> SuccessThreshold - 1, speed |-> 0, finger |-> ContactThreshold - 1],
          [dist |-> SuccessThreshold - 1, speed |-> TerminalVelocityThreshold,
           finger |-> ContactThreshold],
          [dist |-> SuccessThreshold, speed |-> 0, finger |-> ContactThreshold]}
    ELSE {[dist |-> d, speed |-> 0, finger |-> ContactThreshold] : d \in DistVals}

\* physical properties of the object as the simulator reports them
NominalProps == [mass |-> 100, friction |-> 7, com |-> << 1, 2, 3 >>]

\* a draw of reset_idx with every random number at 0.5
NominalDraw(dist, finger) ==
    [dist |-> dist, finger |-> finger, dof |-> ZeroDofs, obj |-> << 0, 0 >>,
     goal |-> << 0, 0 >>, props |-> NominalProps]

\* what reset_idx can sample, per environment
Draws(task) ==
    IF task = "throw"
    THEN {NominalDraw(SuccessThreshold, ContactThreshold - 1)}
    ELSE {NominalDraw(d, ContactThreshold) : d \in DistVals}

\* inversion outcomes with both matrices regular and a torque inside the limits
RegularOsc == {[singular |-> FALSE, raises |-> FALSE, u |-> Fin(0)]}

\* a zero pose action on an end effector at rest on its target
RestingPose == {[pose |-> 0, gain |-> 0, noise |-> 0, z |-> 0, ori |-> 0, vel |-> 0]}

\* arm actions and measured joint velocities of the lifecycle runs
LifeActions == {1}
LifeVelocities == {0}

Selectors(task, controlType, controlInput, vi) ==
    [task |-> task, controlType |-> controlType, controlInput |-> controlInput,
     variableImpedance |-> vi]

WithEpisode(sel, L, n, f, dce) ==
    [task |-> sel.task, controlType |-> sel.controlType,
     controlInput |-> sel.controlInput,
     variableImpedance |-> sel.variableImpedance,
     episodeLength |-> L, nHoldSteps |-> n, controlFreqInv |-> f,
     jitDropsDeadCode |-> dce,
     frankaDofNoise |-> 0, cubeInitPosNoise |-> 0, cubeGoalPosNoise |-> 0,
     randomize |-> FALSE, privInfoDim |-> NumPrivParams,
     propHistLen |-> 1, propDim |-> NumCubeStates,
     kpMin |-> 10, kpMax |-> 300, addActionNoise |-> FALSE]

\* a configuration with its impedanceRange and with action_bias > 0 or not
WithGains(c, lo, hi, noisy) ==
    [c EXCEPT !.kpMin = lo, !.kpMax = hi, !.addActionNoise = noisy]

\* a configuration with its noise magnitudes, in milliradians and millimetres
WithNoise(c, dofNoise, initNoise, goalNoise) ==
    [c EXCEPT !.frankaDofNoise = dofNoise, !.cubeInitPosNoise = initNoise,
              !.cubeGoalPosNoise = goalNoise]

\* a configuration with domain randomization on and a buffer of width dim
WithPrivInfo(c, dim) == [c EXCEPT !.randomize = TRUE, !.privInfoDim = dim]

LifeConfigs ==
    {WithEpisode(Selectors("push", "osc", "pose2d", FALSE), L, n, f, FALSE) :
        L \in 1 .. MaxEpisodeLength, n \in 0 .. MaxHoldSteps,
        f \in 1 .. MaxControlFreqInv}
    \cup
    {WithEpisode(Selectors("throw", "jvel", "joint", FALSE), L, 0, f, FALSE) :
        L \in 1 .. MaxEpisodeLength, f \in 1 .. MaxControlFreqInv}
    \cup
    {WithEpisode(Selectors("slide", "osc", "pose3d", FALSE), MaxEpisodeLength, 0, 1, FALSE)}

ZeroCubeState == [x |-> 0, y |-> 0, z |-> 0, quat |-> << 0, 0, 0, 0 >>]

\* the joint, target, object, goal and privileged-info buffers as allocated
AllocatedSampler ==
    /\ dof_pos = [i \in Envs |-> ZeroDofs]
    /\ dof_vel = [i \in Envs |-> ZeroDofs]
    /\ pos_control = [i \in Envs |-> ZeroDofs]
    /\ init_cube_state = [i \in Envs |-> ZeroCubeState]
    /\ goal_cube_state = [i \in Envs |-> ZeroCubeState]
    /\ priv_info_buf = [i \in Envs |-> [k \in 0 .. (cfg.privInfoDim - 1) |-> 0]]
    /\ proprio_hist_buf = AllocatedHistory(cfg)

\* the buffers as allocated, before __init__ has run reset_idx
InitBuffers ==
    /\ pc = "new"
    /\ raised = ""
    /\ control_steps = 0
    /\ sim_left = 0
    /\ progress_buf = [i \in Envs |-> 0]
    /\ reset_buf = [i \in Envs |-> 0]
    /\ success_buf = [i \in Envs |-> FALSE]
    /\ hold_counters = [i \in Envs |-> 0]
    /\ contact_time = [i \in Envs |-> 0]
    /\ cube_contact = [i \in Envs |-> ContactThreshold]
    /\ vel_i_error = [i \in Envs |-> ZeroError]
    /\ arm_control = [i \in Envs |-> ZeroTorque]
    /\ actions_set = FALSE
    /\ cube_dist = [i \in Envs |-> SuccessThreshold]
    /\ cube_speed = [i \in Envs |-> 0]
    /\ finger_dist = [i \in Envs |-> ContactThreshold]
    /\ eef_dist = [i \in Envs |-> GoToPosEpsilon]
    /\ go_iter = 0
    /\ sub_ticks = 0
    /\ AllocatedSampler
    /\ kp = [i \in Envs |-> default_kp(cfg)]
    /\ steps_elapsed = 0
    /\ hist = HistInit

Init == cfg \in LifeConfigs /\ InitBuffers

Next ==
    \/ Construct([Envs -> Draws(cfg.task)])
    \/ PrePhysicsStep([Envs -> RegularOsc], [Envs -> LifeActions],
                      [Envs -> LifeVelocities], [Envs -> RestingPose])
    \/ Simulate([Envs -> Physics(cfg.task)])
    \/ PostPhysicsStep([Envs -> Draws(cfg.task)])

Spec == Init /\ [][Next]_vars

----------------------------------------------------------------------------
(* Properties of the lifecycle specification *)

\* C1 as stated: in a fresh batch with no success and L >= 2, reset_buf is
\* false after each of the first L-1 step() calls and true after the L-th
C1_FlagOnFinalCall ==
    (pc = "idle" /\ cfg.episodeLength >= 2 /\ hist.no_success
        /\ control_steps >= 1 /\ control_steps <= cfg.episodeLength)
    => \A i \in Envs :
         reset_buf[i] = IF control_steps = cfg.episodeLength THEN 1 ELSE 0

\* C1: in a fresh batch with no success and L >= 2, reset_buf is false for
\* every environment after each of the first L-2 step() calls and true for
\* every environment after call L-1
C1_FlagOnCallBeforeLast ==
    (pc = "idle" /\ cfg.episodeLength >= 2 /\ hist.no_success
        /\ control_steps >= 1 /\ control_steps <= cfg.episodeLength - 1)
    => \A i \in Envs :
         reset_buf[i] = IF control_steps = cfg.episodeLength - 1 THEN 1 ELSE 0

C1_Witness ==
    /\ pc = "idle" /\ cfg.episodeLength = MaxEpisodeLength /\ hist.no_success
    /\ control_steps = cfg.episodeLength - 1
    /\ \A i \in Envs : reset_buf[i] = 1 /\ progress_buf[i] = cfg.episodeLength - 1

\* C3: right after reset_idx(S) returns, every environment of S has
\* progress_buf = 0 and reset_buf = 0, hold counter 0 in the push task and
\* contact_time 0 in the throw task
C3_ResetZeroesCounters ==
    \A i \in hist.reset_ids :
        /\ hist.after_reset[i].progress_buf = 0
        /\ hist.after_reset[i].reset_buf = 0
        /\ cfg.task = "push" => hist.after_reset[i].hold_counters = 0
        /\ cfg.task = "throw" => hist.after_reset[i].contact_time = 0

C3_Witness ==
    /\ cfg.task = "push" /\ pc = "idle" /\ hist.lag_ctrl >= 0
    /\ hist.reset_ids # {} /\ hist.reset_ids # Envs
    /\ \E i \in hist.reset_ids : hold_counters[i] > 0

\* C4 as stated: in the throw task under "jvel", right after reset_idx(S)
\* returns vel_i_error[i, j] = 0 for every environment i of S and arm joint j
C4_ResetZeroesIntegral ==
    (cfg.task = "throw" /\ cfg.controlType = "jvel")
    => \A i \in hist.reset_ids : \A j \in ArmJoints :
         hist.after_reset[i].vel_i_error[j] = 0

\* C5: in the push task, counting from the last tick at which the hold
\* counter of an environment was 0, success_condition is false on the first
\* n_hold_steps consecutive within-threshold ticks and true on the next one
C5_SuccessAfterHold ==
    (pc = "idle" /\ cfg.task = "push")
    => \A i \in Envs :
         hist.streak[i] >= 0
         => /\ hist.streak[i] <= cfg.nHoldSteps + 1
            /\ success_buf[i] <=> hist.streak[i] = cfg.nHoldSteps + 1

C5_Witness ==
    /\ pc = "idle" /\ cfg.task = "push" /\ cfg.nHoldSteps = MaxHoldSteps
    /\ \E i \in Envs : hist.streak[i] = cfg.nHoldSteps + 1 /\ success_buf[i]
    /\ \E i \in Envs : hist.streak[i] = cfg.nHoldSteps /\ ~success_buf[i]

----------------------------------------------------------------------------
(* compute_reward on its own: the reward function applied to drawn buffers *)

RewardConfigs ==
    {WithEpisode(Selectors("push", "osc", "pose2d", FALSE), L, n, 1, FALSE) :
        L \in 1 .. MaxEpisodeLength, n \in 0 .. MaxHoldSteps}
    \cup
    {WithEpisode(Selectors("throw", "jvel", "joint", FALSE), L, 0, 1, FALSE) :
        L \in 1 .. MaxEpisodeLength}
    \cup
    {WithEpisode(Selectors("slide", "osc", "pose3d", FALSE), L, 0, 1, FALSE) :
        L \in 1 .. MaxEpisodeLength}

\* the buffers of one environment on entry
RewardRows(task) ==
    [progress : 0 .. MaxEpisodeLength, reset : {0, 1},
     hold : IF task = "push" THEN 0 .. (MaxHoldSteps + 1) ELSE {0},
     dist : DistVals,
     speed : IF task = "throw" THEN {0, TerminalVelocityThreshold} ELSE {0}]

\* the rows the environments other than 0 take
OtherRows ==
    {[progress |-> 0, reset |-> 0, hold |-> 0, dist |-> SuccessThreshold,
      speed |-> 0],
     [progress |-> MaxEpisodeLength, reset |-> 1, hold |-> 0,
      dist |-> SuccessThreshold - 1, speed |-> 0]}

BatchOf(a, b) == [i \in Envs |-> IF i = 0 THEN a ELSE b]

InitReward ==
    /\ cfg \in RewardConfigs
    /\ kp = [i \in Envs |-> default_kp(cfg)]
    /\ steps_elapsed = 0
    /\ pc = "reward"
    /\ raised = ""
    /\ control_steps = 0
    /\ sim_left = 0
    /\ \E a \in RewardRows(cfg.task), b \in OtherRows :
         /\ progress_buf = [i \in Envs |-> BatchOf(a, b)[i].progress]
         /\ reset_buf = [i \in Envs |-> BatchOf(a, b)[i].reset]
         /\ hold_counters = [i \in Envs |-> BatchOf(a, b)[i].hold]
         /\ cube_dist = [i \in Envs |-> BatchOf(a, b)[i].dist]
         /\ cube_speed = [i \in Envs |-> BatchOf(a, b)[i].speed]
    /\ success_buf = [i \in Envs |-> FALSE]
    /\ contact_time = [i \in Envs |-> 0]
    /\ cube_contact = [i \in Envs |-> ContactThreshold]
    /\ vel_i_error = [i \in Envs |-> ZeroError]
    /\ arm_control = [i \in Envs |-> ZeroTorque]
    /\ actions_set = TRUE
    /\ finger_dist = [i \in Envs |-> ContactThreshold]
    /\ eef_dist = [i \in Envs |-> GoToPosEpsilon]
    /\ go_iter = 0
    /\ sub_ticks = 0
    /\ AllocatedSampler
    /\ hist = HistInit

\* the compute_reward method: compute_franka_reward on the current buffers,
\* its results stored in reset_buf and success_buf
ComputeReward ==
    /\ pc = "reward"
    /\ IF reward_raises(cfg, actions_set) # ""
       THEN /\ Raise(reward_raises(cfg, actions_set))
            /\ hist' = [hist EXCEPT !.raised_in = "reward"]
            /\ UNCHANGED << progress_buf, reset_buf, success_buf,
                            hold_counters, contact_time, cube_contact,
                            vel_i_error, arm_control, cube_dist, cube_speed,
                            finger_dist, pos_control, sampler_vars >>
       ELSE /\ Commit(compute_reward(cfg, Self))
            /\ pc' = "returned"
            /\ raised' = raised
            /\ hist' = [hist EXCEPT !.reset_in = reset_buf]
    /\ UNCHANGED << cfg, control_steps, sim_left, actions_set, eef_dist,
                    go_iter, sub_ticks, gain_vars >>

NextReward == ComputeReward

SpecReward == InitReward /\ [][NextReward]_vars

C13_SettledSuccessAtAnyStep ==
    (pc = "returned" /\ cfg.task = "throw")
    => \A i \in Envs :
         success_buf[i] <=> /\ cube_speed[i] < TerminalVelocityThreshold
                            /\ cube_dist[i] < SuccessThreshold

\* C13: in the throw task success_condition[i] is true exactly when the speed
\* is below the velocity threshold, the distance is below the success
\* threshold and progress_buf[i] > 0; with progress_buf[i] = 0 it is false
C13_SettledSuccessAfterFirstStep ==
    (pc = "returned" /\ cfg.task = "throw")
    => \A i \in Envs :
         success_buf[i] <=> /\ cube_speed[i] < TerminalVelocityThreshold
                            /\ cube_dist[i] < SuccessThreshold
                            /\ progress_buf[i] >= 1

C13_Witness ==
    /\ pc = "returned" /\ cfg.task = "throw"
    /\ \E i \in Envs :
         /\ progress_buf[i] = 0 /\ ~success_buf[i]
         /\ cube_speed[i] < TerminalVelocityThreshold
         /\ cube_dist[i] < SuccessThreshold
    /\ \E i \in Envs : progress_buf[i] > 0 /\ success_buf[i]

\* C14 as stated: once compute_reward has been called in the slide task,
\* success_condition[i] has been computed and is true iff the object-to-goal
\* distance of i is strictly below the success threshold
C14_SlideSuccessBelowThreshold ==
    (cfg.task = "slide" /\ pc # "reward")
    => /\ pc = "returned"
       /\ \A i \in Envs : success_buf[i] <=> cube_dist[i] < SuccessThreshold

----------------------------------------------------------------------------
(* Control specification: every selector combination, the control laws on   *)
(* torques inside and far outside the effort limits, on singular matrices,  *)
(* and the scripted primitive                                               *)

ControlTypes == {"osc", "joint_tor", "jvel"}
ControlInputs == {"pose2d", "pose3d", "pose6d", "primitive", "joint"}

\* the script compiler's dead-code elimination matters only where the push
\* reward's unused subtraction does not broadcast
DeadCodeChoices(sel) ==
    IF sel.task = "push" /\ ~is_primitive(sel) /\ numActions(sel) # 2
    THEN BOOLEAN ELSE {FALSE}

CtrlSelectors ==
    {Selectors("push", t, c, v) :
        t \in ControlTypes, c \in ControlInputs, v \in BOOLEAN}
    \cup {Selectors("slide", t, c, FALSE) :
        t \in ControlTypes, c \in {"pose3d", "pose6d"}}
    \cup {Selectors("throw", t, "joint", FALSE) : t \in ControlTypes}

CtrlConfigs ==
    UNION {{WithEpisode(sel, MaxEpisodeLength, 0, 1, d) : d \in DeadCodeChoices(sel)} :
              sel \in CtrlSelectors}

Regular(u) == [singular |-> FALSE, raises |-> FALSE, u |-> Fin(u)]

\* torch.inverse on a singular matrix: it raises, or it returns non-finite
\* entries that reach the unclamped torque
SingularOutcomes ==
    {[singular |-> TRUE, raises |-> TRUE, u |-> NaN]}
    \cup {[singular |-> TRUE, raises |-> FALSE, u |-> v] : v \in NonFinite}

\* environment 0 takes every outcome, the others stay regular
CtrlOsc ==
    {BatchOf(a, Regular(0)) :
        a \in {Regular(0), Regular(BigTorque), Regular(0 - BigTorque)}
              \cup SingularOutcomes}

GoOsc ==
    {BatchOf(a, Regular(0)) :
        a \in {Regular(BigTorque),
               [singular |-> TRUE, raises |-> TRUE, u |-> NaN],
               [singular |-> TRUE, raises |-> FALSE, u |-> NaN]}}

CtrlActions == {BatchOf(a, 0) : a \in {-1, 0, 1}}
CtrlVelocities == {BatchOf(q, 0) : q \in {0, 1}}

\* end-effector distances to the target: nobody within epsilon, environment
\* 0 alone, everybody
CtrlEef ==
    {[i \in Envs |-> GoToPosEpsilon],
     BatchOf(0, GoToPosEpsilon),
     [i \in Envs |-> 0]}

CtrlPhysics ==
    {[i \in Envs |-> [dist |-> SuccessThreshold,
                      speed |-> TerminalVelocityThreshold,
                      finger |-> ContactThreshold]]}

CtrlDraws ==
    {[i \in Envs |-> NominalDraw(SuccessThreshold, ContactThreshold)]}

InitCtrl == cfg \in CtrlConfigs /\ InitBuffers

NextCtrl ==
    \/ Construct(CtrlDraws)
    \/ PrePhysicsStep(CtrlOsc, CtrlActions, CtrlVelocities,
                      [Envs -> RestingPose])
    \/ Simulate(CtrlPhysics)
    \/ PostPhysicsStep(CtrlDraws)
    \/ PrimitiveStep(CtrlEef)
    \/ GoToPos(CtrlEef, GoOsc, CtrlPhysics)

SpecCtrl == InitCtrl /\ [][NextCtrl]_vars

\* C12: each _compute_jvel_torques call leaves vel_i_error equal to its
\* previous value plus the tick's velocity error, which is the commanded
\* minus the measured velocity on joints 1, 3, 5 and minus the measured
\* velocity on the other four arm joints, also when the torque is saturated;
\* a positive error strictly increases the accumulator of its joint
C12_IntegralAccumulates ==
    [][(pc = "idle" /\ pc' = "sim" /\ cfg.controlType = "jvel")
        => \A i \in Envs : \A j \in ArmJoints :
             LET err == IF j \in {1, 3, 5}
                        THEN hist'.jvel[i][j] - hist'.qd[i]
                        ELSE 0 - hist'.qd[i]
             IN /\ vel_i_error'[i][j] = vel_i_error[i][j] + err
                /\ err > 0 => vel_i_error'[i][j] > vel_i_error[i][j]]_vars

C12_Witness ==
    /\ pc = "sim" /\ cfg.task = "throw" /\ cfg.controlType = "jvel"
    /\ \E i \in Envs :
         /\ arm_control[i][1] = Fin(franka_effort_limits[1])
         /\ hist.jvel[i][1] - hist.qd[i] > 0
         /\ vel_i_error[i][1] >= 2 * (hist.jvel[i][1] - hist.qd[i])
         /\ hist.qd[i] > 0
         /\ vel_i_error[i][0] < 0

InLimits(t, j) ==
    /\ t.k = "fin"
    /\ 0 - franka_effort_limits[j] <= t.v
    /\ t.v <= franka_effort_limits[j]

\* C7 as stated: a selector combination either raises at construction or
\* every later step() computes and writes the arm command without raising;
\* none is accepted at construction and then fails at a control tick
C7_SelectorsFailAtConstruction ==
    hist.raised_in # "control"

\* C8 as stated: every arm torque in the actuation buffer lies in
\* [-effort_limit_j, +effort_limit_j]
C8_TorqueWithinLimits ==
    \A i \in Envs : \A j \in ArmJoints : InLimits(arm_control[i][j], j)

\* C9 as stated: with a singular mass or task-space matrix,
\* _compute_osc_torques raises no error and writes no NaN or infinite entry
C9_SingularRecovered ==
    hist.singular
    => /\ hist.raised_in # "inverse"
       /\ \A i \in Envs : \A j \in ArmJoints : arm_control[i][j] \notin NonFinite

\* every environment strictly within the default tolerance of go_to_pos
AllWithinTolerance == \A i \in Envs : eef_dist[i] < GoToPosEpsilon

\* C10 as stated: each sub-loop of primitive_step stops at the first
\* iteration at which all environments are within the distance tolerance of
\* its target, so no physics tick follows such an iteration
C10_BothLoopsStopOnConvergence ==
    [][(pc \in {"go1", "go2"} /\ AllWithinTolerance)
        => sub_ticks' = sub_ticks]_vars

\* C10: the first sub-loop stops at the first iteration at which all
\* environments are within 1e-3 of the pre-approach target and otherwise
\* after 50 iterations; the second, called with epsilon = -inf, runs all its
\* 100 iterations unless the control law raises; primitive_step executes at
\* most 150 sub-loop physics ticks
C10_LoopsStop ==
    /\ [](/\ sub_ticks <= GoToPosMaxSteps + PushMaxSteps
          /\ pc = "go1" => go_iter < GoToPosMaxSteps /\ sub_ticks = go_iter
          /\ pc = "go2" => go_iter < PushMaxSteps)
    /\ [][/\ (pc = "go1" /\ AllWithinTolerance)
             => (pc' = "go2" /\ sub_ticks' = sub_ticks)
          /\ (pc = "go1" /\ pc' = "go2")
             => (AllWithinTolerance \/ go_iter = GoToPosMaxSteps - 1)
          /\ (pc = "go2" /\ pc' # "raised") => sub_ticks' = sub_ticks + 1
          /\ (pc = "go2" /\ pc' = "post") => go_iter = PushMaxSteps - 1]_vars

C10_Witness ==
    /\ pc = "go2" /\ is_primitive(cfg)
    /\ go_iter = PushMaxSteps - 1 /\ sub_ticks = go_iter + 1
    /\ AllWithinTolerance

----------------------------------------------------------------------------
(* step() on a constructed task whose reset flags the caller may have set:  *)
(* reset_buf is drawn on entry, in primitive and in non-primitive mode      *)

ForcedEpisodeLengths == {1, MaxEpisodeLength}

ForcedConfigs ==
    {WithEpisode(Selectors("push", "osc", c, FALSE), L, 0, 1, FALSE) :
        c \in {"primitive", "pose2d"}, L \in ForcedEpisodeLengths}
    \cup
    {WithEpisode(Selectors("throw", "jvel", "joint", FALSE), L, 0, 1, FALSE) :
        L \in ForcedEpisodeLengths}
    \cup
    {WithEpisode(Selectors("slide", "osc", "pose3d", FALSE), L, 0, 1, FALSE) :
        L \in ForcedEpisodeLengths}

\* reset flags on entry to the first step(): none, environment 0 alone, all
ForcedFlags ==
    {[i \in Envs |-> 0], BatchOf(1, 0), [i \in Envs |-> 1]}

\* end-effector distances to the waypoint: nobody within epsilon, everybody
ForcedEef == {[i \in Envs |-> GoToPosEpsilon], [i \in Envs |-> 0]}

\* the task as __init__ leaves it (reset_idx on every environment, one
\* _refresh), with the reset flags the caller set before the first step()
InitForced ==
    /\ cfg \in ForcedConfigs
    /\ kp = [i \in Envs |-> default_kp(cfg)]
    /\ steps_elapsed = 0
    /\ pc = "idle"
    /\ raised = ""
    /\ control_steps = 0
    /\ sim_left = 0
    /\ progress_buf = [i \in Envs |-> 0]
    /\ reset_buf \in ForcedFlags
    /\ success_buf = [i \in Envs |-> FALSE]
    /\ hold_counters = [i \in Envs |-> 0]
    /\ contact_time = [i \in Envs |-> 0]
    /\ cube_contact = [i \in Envs |-> ContactThreshold]
    /\ vel_i_error = [i \in Envs |-> ZeroError]
    /\ arm_control = [i \in Envs |-> ZeroTorque]
    /\ actions_set = FALSE
    /\ cube_dist = [i \in Envs |-> SuccessThreshold]
    /\ cube_speed = [i \in Envs |-> 0]
    /\ finger_dist = [i \in Envs |-> ContactThreshold]
    /\ eef_dist = [i \in Envs |-> GoToPosEpsilon]
    /\ go_iter = 0
    /\ sub_ticks = 0
    /\ dof_pos = [i \in Envs |-> reset_pos(cfg, ZeroDofs)]
    /\ dof_vel = [i \in Envs |-> ZeroDofs]
    /\ pos_control = [i \in Envs |-> reset_pos(cfg, ZeroDofs)]
    /\ init_cube_state = [i \in Envs |->
          sampled_init_cube_state(cfg, NominalDraw(SuccessThreshold, ContactThreshold))]
    /\ goal_cube_state = [i \in Envs |->
          sampled_goal_cube_state(cfg, NominalDraw(SuccessThreshold, ContactThreshold))]
    /\ priv_info_buf = [i \in Envs |-> [k \in 0 .. (cfg.privInfoDim - 1) |-> 0]]
    /\ proprio_hist_buf = AllocatedHistory(cfg)
    /\ hist = [HistInit EXCEPT
                 !.constructed = TRUE,
                 !.reset_ids = Envs,
                 !.after_reset = [i \in Envs |->
                     [progress_buf |-> 0, reset_buf |-> 0, hold_counters |-> 0,
                      contact_time |-> 0, vel_i_error |-> ZeroError]],
                 !.streak = [i \in Envs |-> IF cfg.task = "push" THEN 0 ELSE -1]]

NextForced ==
    \/ PrePhysicsStep([Envs -> RegularOsc], [Envs -> LifeActions],
                      [Envs -> LifeVelocities], [Envs -> RestingPose])
    \/ Simulate(CtrlPhysics)
    \/ PostPhysicsStep(CtrlDraws)
    \/ PrimitiveStep(ForcedEef)
    \/ GoToPos(ForcedEef, [Envs -> RegularOsc], CtrlPhysics)

SpecForced == InitForced /\ [][NextForced]_vars

\* C11: from entry to primitive_step to the end of its second go_to_pos
\* call no environment is reset and progress_buf and reset_buf keep their
\* values, whatever reset_buf holds; the post_physics_step that follows adds
\* 1 to progress_buf exactly once, whatever number of physics ticks the two
\* sub-loops executed (the environments it resets then restart at 0)
C11_PrimitiveKeepsEpisodeBuffers ==
    [][/\ ((pc = "idle" /\ is_primitive(cfg)) \/ pc \in {"go1", "go2"})
          => /\ progress_buf' = progress_buf
             /\ reset_buf' = reset_buf
             /\ hist'.reset_ids = hist.reset_ids
             /\ hist'.after_reset = hist.after_reset
             /\ hist'.post_resets = hist.post_resets
       /\ (pc = "post" /\ is_primitive(cfg))
          => \A i \in Envs :
               progress_buf'[i] = IF i \in hist'.post_resets THEN 0
                                  ELSE progress_buf[i] + 1]_vars

C11_Witness ==
    /\ is_primitive(cfg) /\ hist.raised_in = "reward"
    /\ sub_ticks = GoToPosMaxSteps + PushMaxSteps
    /\ hist.post_flags # {} /\ hist.post_flags # Envs
    /\ hist.post_resets = hist.post_flags
    /\ \A i \in Envs : progress_buf[i] = IF i \in hist.post_resets THEN 0 ELSE 1

\* C20: post_physics_step resets an environment exactly when its reset flag
\* was set on entry to the call, raised by the previous reward or forced from
\* outside, except in primitive mode with max_episode_length = 1, where every
\* environment is reset; so reset_buf is all zero when compute_reward is
\* entered, and a raised flag is consumed by the one reset of the next call
C20_ResetIffFlagged ==
    [][pc = "post"
       => /\ hist'.post_resets =
               IF is_primitive(cfg) /\ cfg.episodeLength = 1 THEN Envs
               ELSE {i \in Envs : reset_buf[i] # 0}
          /\ \A i \in hist'.post_resets : hist'.after_reset[i].progress_buf = 0
          /\ pc' = "idle" => \A i \in Envs : hist'.reset_in[i] = 0
          /\ hist'.raised_in = "reward" => \A i \in Envs : reset_buf'[i] = 0]_vars

C20_Witness ==
    /\ pc = "idle" /\ control_steps >= 2
    /\ ~is_primitive(cfg)
    /\ hist.post_flags \notin {{}, Envs}
    /\ hist.post_resets = hist.post_flags
    /\ \A i \in Envs : hist.reset_in[i] = 0

----------------------------------------------------------------------------
(* reset_idx on its own: one call on buffers that are freshly allocated or  *)
(* left by a running episode, for every noise magnitude and buffer width    *)

ResetSelectors ==
    {Selectors("push", "osc", "pose2d", FALSE),
     Selectors("push", "osc", "pose3d", FALSE),
     Selectors("throw", "jvel", "joint", FALSE),
     Selectors("slide", "osc", "pose3d", FALSE)}

\* frankaDofNoise, cubeInitPosNoise, cubeGoalPosNoise: none, moderate, and a
\* joint noise wide enough to reach the joint limits
NoiseChoices == {<< 0, 0, 0 >>, << 250, 100, 100 >>, << 2000, 20, 60 >>}

\* privInfoDim: narrower than, equal to and wider than the parameter count
PrivInfoDims == {0, 3, NumPrivParams, NumPrivParams + 2}

ResetConfigs ==
    LET base == {WithNoise(WithEpisode(sel, MaxEpisodeLength, 0, 1, FALSE),
                           n[1], n[2], n[3]) :
                    sel \in ResetSelectors, n \in NoiseChoices}
    IN base \cup {WithPrivInfo(c, dim) : c \in base, dim \in PrivInfoDims}

\* the random numbers and simulator reports of one call, the same for every
\* environment of the batch
ResetDraws ==
    {[i \in Envs |->
        [dist |-> SuccessThreshold, finger |-> ContactThreshold,
         dof |-> [j \in Dofs |-> a], obj |-> << a, b >>, goal |-> << b, a >>,
         props |-> [mass |-> m, friction |-> 7, com |-> << 1, 2, 3 >>]]] :
        a \in NoiseSteps, b \in NoiseSteps, m \in {100, 150}}

\* the index sets reset_idx is called with
ResetSets == {{0}, Envs \ {0}, Envs}

\* buffers left by a running episode: counters up, joints moving away from
\* the default pose, commands on the effort limits, old object and goal
DirtyBuffers ==
    /\ progress_buf = [i \in Envs |-> MaxEpisodeLength - 1]
    /\ reset_buf = [i \in Envs |-> 1]
    /\ success_buf = [i \in Envs |-> TRUE]
    /\ hold_counters = [i \in Envs |-> IF cfg.task = "push" THEN 1 ELSE 0]
    /\ contact_time = [i \in Envs |-> IF cfg.task = "throw" THEN 1 ELSE 0]
    /\ cube_contact = [i \in Envs |-> ContactThreshold - 1]
    /\ vel_i_error = [i \in Envs |-> ZeroError]
    /\ arm_control = [i \in Envs |-> [j \in ArmJoints |-> Fin(franka_effort_limits[j])]]
    /\ cube_dist = [i \in Envs |-> SuccessThreshold - 1]
    /\ cube_speed = [i \in Envs |-> TerminalVelocityThreshold]
    /\ finger_dist = [i \in Envs |-> ContactThreshold - 1]
    /\ dof_pos = [i \in Envs |-> [j \in Dofs |-> At(franka_dof_upper_limits, j)]]
    /\ dof_vel = [i \in Envs |-> [j \in Dofs |-> 1]]
    /\ pos_control = [i \in Envs |-> [j \in Dofs |-> At(franka_dof_lower_limits, j)]]
    /\ init_cube_state = [i \in Envs |->
          [x |-> 400, y |-> -400, z |-> 0, quat |-> << 1, 0, 0, 0 >>]]
    /\ goal_cube_state = [i \in Envs |->
          [x |-> -400, y |-> 400, z |-> 0, quat |-> << 1, 0, 0, 0 >>]]
    /\ priv_info_buf = [i \in Envs |-> [k \in 0 .. (cfg.privInfoDim - 1) |-> 0]]
    /\ proprio_hist_buf = AllocatedHistory(cfg)

InitReset ==
    /\ cfg \in ResetConfigs
    /\ kp = [i \in Envs |-> default_kp(cfg)]
    /\ steps_elapsed = 0
    /\ pc = "reset"
    /\ raised = ""
    /\ control_steps = 0
    /\ sim_left = 0
    /\ actions_set = FALSE
    /\ eef_dist = [i \in Envs |-> GoToPosEpsilon]
    /\ go_iter = 0
    /\ sub_ticks = 0
    /\ hist = HistInit
    /\ \/ DirtyBuffers
       \/ /\ progress_buf = [i \in Envs |-> 0]
          /\ reset_buf = [i \in Envs |-> 0]
          /\ success_buf = [i \in Envs |-> FALSE]
          /\ hold_counters = [i \in Envs |-> 0]
          /\ contact_time = [i \in Envs |-> 0]
          /\ cube_contact = [i \in Envs |-> ContactThreshold]
          /\ vel_i_error = [i \in Envs |-> ZeroError]
          /\ arm_control = [i \in Envs |-> ZeroTorque]
          /\ cube_dist = [i \in Envs |-> SuccessThreshold]
          /\ cube_speed = [i \in Envs |-> 0]
          /\ finger_dist = [i \in Envs |-> ContactThreshold]
          /\ AllocatedSampler

\* one call reset_idx(env_ids)
ResetIdx(SB, DB) ==
    /\ pc = "reset"
    /\ \E env_ids \in SB, draw \in DB :
         /\ Commit(reset_idx(cfg, env_ids, draw, Self))
         /\ IF reset_idx_raises(cfg, env_ids)
            THEN /\ Raise("IndexError")
                 /\ hist' = [hist EXCEPT !.raised_in = "reset",
                                          !.reset_ids = env_ids,
                                          !.draw = draw]
            ELSE /\ pc' = "returned"
                 /\ raised' = raised
                 /\ hist' = [hist EXCEPT
                       !.reset_ids = env_ids,
                       !.after_reset = Snap(reset_idx(cfg, env_ids, draw, Self),
                                            env_ids),
                       !.draw = draw]
    /\ UNCHANGED << cfg, control_steps, sim_left, actions_set, eef_dist,
                    go_iter, sub_ticks, gain_vars >>

NextReset == ResetIdx(ResetSets, ResetDraws)

SpecReset == InitReset /\ [][NextReset]_vars

\* C15: after reset_idx(S), for every i in S, each of the seven arm joint
\* positions lies within [default - dof_noise, default + dof_noise] and within
\* the joint limits, the two finger positions equal their defaults, all nine
\* joint velocities are 0, the position targets equal the new joint positions
\* and the effort commands are 0
C15_ResetJointState ==
    pc = "returned"
    => \A i \in hist.reset_ids :
         /\ \A j \in Dofs \ GripperDofs :
              /\ dof_pos[i][j] >= At(franka_default_dof_pos(cfg), j) - cfg.frankaDofNoise
              /\ dof_pos[i][j] <= At(franka_default_dof_pos(cfg), j) + cfg.frankaDofNoise
              /\ dof_pos[i][j] >= At(franka_dof_lower_limits, j)
              /\ dof_pos[i][j] <= At(franka_dof_upper_limits, j)
         /\ \A j \in GripperDofs :
              dof_pos[i][j] = At(franka_default_dof_pos(cfg), j)
         /\ \A j \in Dofs : dof_vel[i][j] = 0
         /\ pos_control[i] = dof_pos[i]
         /\ \A j \in ArmJoints : arm_control[i][j] = Fin(0)

C15_Witness ==
    /\ pc = "returned" /\ hist.reset_ids = {0}
    /\ dof_pos[0][3] = At(franka_dof_lower_limits, 3)
    /\ dof_pos[0][1] < At(franka_default_dof_pos(cfg), 1)
    /\ dof_pos[0][1] > At(franka_dof_lower_limits, 1)
    /\ \E i \in Envs \ {0} : dof_vel[i][0] # 0

Within(v, centre, noise) == v >= centre - noise /\ v <= centre + noise

\* C16: in all three tasks, after reset_idx(S), for every i in S the object's
\* x and y lie within the initial-position noise of table centre + initial
\* offset, the goal's x and y within the goal noise of table centre + goal
\* offset, both z equal table surface + half the object size, and both
\* orientations are (0, 0, 0, 1)
C16_ResetObjectAndGoal ==
    pc = "returned"
    => \A i \in hist.reset_ids :
         /\ \A k \in {1, 2} :
              /\ Within(IF k = 1 THEN init_cube_state[i].x ELSE init_cube_state[i].y,
                        table_surface_xy(cfg.task)[k] + init_shift(cfg.task)[k],
                        cfg.cubeInitPosNoise)
              /\ Within(IF k = 1 THEN goal_cube_state[i].x ELSE goal_cube_state[i].y,
                        table_surface_xy(cfg.task)[k] + goal_shift(cfg.task)[k],
                        cfg.cubeGoalPosNoise)
         /\ init_cube_state[i].z = TableSurfaceZ + CubeSize \div 2
         /\ goal_cube_state[i].z = TableSurfaceZ + CubeSize \div 2
         /\ init_cube_state[i].quat = << 0, 0, 0, 1 >>
         /\ goal_cube_state[i].quat = << 0, 0, 0, 1 >>

\* the values of a privileged-info row in its first n columns
RowValues(row, n) == {row[k] : k \in (DOMAIN row) \cap (0 .. (n - 1))}

\* C19: _store_priv_info(S) leaves in every row of S all source parameters
\* (friction, mass, centre of mass) followed by zeros when the buffer is wider
\* than the parameter count, and fails with an error when the buffer is
\* narrower; no parameter is dropped silently
C19_PrivInfoComplete ==
    (pc \in {"returned", "raised"} /\ cfg.randomize)
    => IF cfg.privInfoDim < NumPrivParams
       THEN pc = "raised"
       ELSE /\ pc = "returned"
            /\ \A i \in hist.reset_ids :
                 /\ {hist.draw[i].props.friction, hist.draw[i].props.mass,
                     hist.draw[i].props.com[1], hist.draw[i].props.com[2],
                     hist.draw[i].props.com[3]}
                       \subseteq RowValues(priv_info_buf[i], NumPrivParams)
                 /\ \A k \in NumPrivParams .. (cfg.privInfoDim - 1) :
                      priv_info_buf[i][k] = 0

----------------------------------------------------------------------------
(* The operational-space command of the push task: repeated control ticks   *)
(* under every pose input, with and without variable impedance and action   *)
(* noise                                                                    *)

\* impedanceRange of the runs; the default gain 200 lies outside it
OscKpMin == 250
OscKpMax == 650

OscConfigs ==
    {WithGains(WithEpisode(Selectors("push", "osc", c, v), MaxEpisodeLength,
                           0, 1, numActions(Selectors("push", "osc", c, v)) # 2),
               OscKpMin, OscKpMax, noisy) :
        c \in {"pose2d", "pose3d", "pose6d"}, v \in BOOLEAN, noisy \in BOOLEAN}

\* environment 0 takes every pose action, gain logit, noise draw and
\* orientation error; the other environments rest
OscInputs ==
    {BatchOf([pose |-> a, gain |-> g, noise |-> n, z |-> 5, ori |-> r, vel |-> 1],
             [pose |-> 0, gain |-> 0, noise |-> 0, z |-> 0, ori |-> 0, vel |-> 0]) :
        a \in {0, 1}, g \in {-2, 2}, n \in {0, 1}, r \in {0, 20}}

OscPhysics ==
    {[i \in Envs |-> [dist |-> SuccessThreshold, speed |-> 0,
                      finger |-> ContactThreshold]]}

OscDraws == {[i \in Envs |-> NominalDraw(SuccessThreshold, ContactThreshold)]}

\* the task as __init__ leaves it
InitOsc ==
    /\ cfg \in OscConfigs
    /\ kp = [i \in Envs |-> default_kp(cfg)]
    /\ steps_elapsed = 0
    /\ pc = "idle"
    /\ raised = ""
    /\ control_steps = 0
    /\ sim_left = 0
    /\ progress_buf = [i \in Envs |-> 0]
    /\ reset_buf = [i \in Envs |-> 0]
    /\ success_buf = [i \in Envs |-> FALSE]
    /\ hold_counters = [i \in Envs |-> 0]
    /\ contact_time = [i \in Envs |-> 0]
    /\ cube_contact = [i \in Envs |-> ContactThreshold]
    /\ vel_i_error = [i \in Envs |-> ZeroError]
    /\ arm_control = [i \in Envs |-> ZeroTorque]
    /\ actions_set = FALSE
    /\ cube_dist = [i \in Envs |-> SuccessThreshold]
    /\ cube_speed = [i \in Envs |-> 0]
    /\ finger_dist = [i \in Envs |-> ContactThreshold]
    /\ eef_dist = [i \in Envs |-> GoToPosEpsilon]
    /\ go_iter = 0
    /\ sub_ticks = 0
    /\ dof_pos = [i \in Envs |-> reset_pos(cfg, ZeroDofs)]
    /\ dof_vel = [i \in Envs |-> ZeroDofs]
    /\ pos_control = [i \in Envs |-> reset_pos(cfg, ZeroDofs)]
    /\ init_cube_state = [i \in Envs |->
          sampled_init_cube_state(cfg, NominalDraw(SuccessThreshold, ContactThreshold))]
    /\ goal_cube_state = [i \in Envs |->
          sampled_goal_cube_state(cfg, NominalDraw(SuccessThreshold, ContactThreshold))]
    /\ priv_info_buf = [i \in Envs |-> [k \in 0 .. (cfg.privInfoDim - 1) |-> 0]]
    /\ proprio_hist_buf = AllocatedHistory(cfg)
    /\ hist = [HistInit EXCEPT
                 !.constructed = TRUE,
                 !.reset_ids = Envs,
                 !.after_reset = [i \in Envs |->
                     [progress_buf |-> 0, reset_buf |-> 0, hold_counters |-> 0,
                      contact_time |-> 0, vel_i_error |-> ZeroError]],
                 !.streak = [i \in Envs |-> 0]]

NextOsc ==
    \/ PrePhysicsStep([Envs -> RegularOsc], [Envs -> LifeActions],
                      [Envs -> LifeVelocities], OscInputs)
    \/ Simulate(OscPhysics)
    \/ PostPhysicsStep(OscDraws)

SpecOsc == InitOsc /\ [][NextOsc]_vars

\* C17: with variable impedance, under pose2d, pose3d and pose6d, every
\* control tick computes its torque with every stiffness component equal to
\* kp_min + (kp_max - kp_min) * sigmoid(gain logit of this tick's action),
\* inside [kp_min, kp_max], whatever the earlier ticks and the default gain
C17_GainsFromThisAction ==
    [][(pc = "idle" /\ pc' # "idle" /\ cfg.variableImpedance
        /\ cfg.controlInput \in {"pose2d", "pose3d", "pose6d"})
       => /\ pc' = "sim"
          /\ \A i \in Envs : \A k \in PoseDims :
               /\ kp'[i][k] = cfg.kpMin
                     + ((cfg.kpMax - cfg.kpMin) * sigmoid(hist'.osc_in.gain[i])) \div 1000
               /\ kp'[i][k] >= cfg.kpMin
               /\ kp'[i][k] <= cfg.kpMax]_vars

----------------------------------------------------------------------------
(* The hold counter of the push task over whole step() calls, with the      *)
(* object inside and outside the success threshold                           *)

HoldConfigs ==
    {WithEpisode(Selectors("push", "osc", c, FALSE), MaxEpisodeLength,
                 MaxHoldSteps, 1, FALSE) : c \in {"primitive", "pose2d"}}

\* every physics advance leaves the object of every environment just inside
\* the threshold or on it
HoldPhysics ==
    {[i \in Envs |-> [dist |-> d, speed |-> 0, finger |-> ContactThreshold]] :
        d \in DistVals}

\* the end effector never comes within epsilon of its waypoint
HoldEef == {[i \in Envs |-> GoToPosEpsilon]}

InitHold == cfg \in HoldConfigs /\ InitBuffers

NextHold ==
    \/ Construct(CtrlDraws)
    \/ PrePhysicsStep([Envs -> RegularOsc], [Envs -> LifeActions],
                      [Envs -> LifeVelocities], [Envs -> RestingPose])
    \/ Simulate(HoldPhysics)
    \/ PostPhysicsStep(CtrlDraws)
    \/ PrimitiveStep(HoldEef)
    \/ GoToPos(HoldEef, [Envs -> RegularOsc], HoldPhysics)

SpecHold == InitHold /\ [][NextHold]_vars

\* C21: across one step() call, in every control-input mode including
\* "primitive", the hold counter of every environment grows by at most 1
C21_HoldGrowsByOnePerStep ==
    \A i \in Envs :
        hist.step_hold[i] >= 0 => hold_counters[i] <= hist.step_hold[i] + 1

\* the hold counter one _update_states call leaves for a distance
Stepped(hold, dist) == IF dist < SuccessThreshold THEN hold + 1 ELSE 0

\* C22: every _update_states call of the push task sets the hold counter to
\* its previous value + 1 when the object-to-goal distance is strictly below
\* the success threshold and to 0 otherwise, a distance equal to the
\* threshold included; the counter is never negative
C22_HoldCounterUpdate ==
    [][\A i \in Envs :
         /\ hold_counters'[i] >= 0
         /\ (pc = "post" /\ hist'.raised_in # "reset")
            => hold_counters'[i] =
                 Stepped(IF i \in hist'.post_resets THEN 0 ELSE hold_counters[i],
                         cube_dist'[i])
         /\ (pc \in {"go1", "go2"} /\ sub_ticks' = sub_ticks + 1)
            => hold_counters'[i] =
                 Stepped(Stepped(hold_counters[i], cube_dist[i]), cube_dist'[i])]_vars

C22_Witness ==
    /\ pc = "idle" /\ ~is_primitive(cfg)
    /\ hist.step_hold[0] >= 1 /\ 0 \notin hist.post_resets
    /\ cube_dist[0] = SuccessThreshold
    /\ hold_counters[0] = 0

\* C23: for max_episode_length L >= 2, at the end of every step() call and
\* for every environment, 0 <= progress_buf <= L - 1, and progress_buf = L - 1
\* implies that the reset flag is set
C23_ProgressBounded ==
    (pc = "idle" /\ control_steps >= 1 /\ cfg.episodeLength >= 2)
    => \A i \in Envs :
         /\ progress_buf[i] >= 0
         /\ progress_buf[i] <= cfg.episodeLength - 1
         /\ progress_buf[i] = cfg.episodeLength - 1 => reset_buf[i] # 0

C23_Witness ==
    /\ pc = "idle" /\ cfg.episodeLength >= 2 /\ hist.no_success
    /\ control_steps = cfg.episodeLength
    /\ hist.post_resets = Envs
    /\ \A i \in Envs : progress_buf[i] = 0 /\ reset_buf[i] = 0

\* C24: reset_idx(S) changes nothing that belongs to an environment outside
\* S: its progress_buf and reset_buf, its hold counter and contact timer, its
\* goal state and stored initial object state, its joint positions and
\* velocities, and its position-target and effort-command rows
C24_ResetFrame ==
    [][pc = "reset"
       => \A j \in Envs \ hist'.reset_ids :
            /\ progress_buf'[j] = progress_buf[j]
            /\ reset_buf'[j] = reset_buf[j]
            /\ hold_counters'[j] = hold_counters[j]
            /\ contact_time'[j] = contact_time[j]
            /\ goal_cube_state'[j] = goal_cube_state[j]
            /\ init_cube_state'[j] = init_cube_state[j]
            /\ dof_pos'[j] = dof_pos[j]
            /\ dof_vel'[j] = dof_vel[j]
            /\ pos_control'[j] = pos_control[j]
            /\ arm_control'[j] = arm_control[j]]_vars

C24_Witness ==
    /\ pc = "returned" /\ hist.reset_ids = Envs \ {0}
    /\ progress_buf[0] = MaxEpisodeLength - 1 /\ reset_buf[0] = 1
    /\ dof_vel[0][0] = 1
    /\ arm_control[0][0] # Fin(0)
    /\ \A i \in Envs \ {0} : progress_buf[i] = 0 /\ dof_vel[i][0] = 0

\* C25: in every task and every accepted control-input mode compute_reward
\* returns without raising: every coefficient the reward reads is present in
\* the reward settings and every term over the action vector is well-defined
\* for the width of the action vector
C25_RewardNeverRaises == hist.raised_in # "reward"

\* the buffers as init_data allocates them
AllocatedBuffers ==
    [ progress_buf |-> [i \in Envs |-> 0], reset_buf |-> [i \in Envs |-> 0],
      success_buf |-> [i \in Envs |-> FALSE],
      hold_counters |-> [i \in Envs |-> 0],
      contact_time |-> [i \in Envs |-> 0],
      cube_contact |-> [i \in Envs |-> ContactThreshold],
      vel_i_error |-> [i \in Envs |-> ZeroError],
      arm_control |-> [i \in Envs |-> ZeroTorque],
      cube_dist |-> [i \in Envs |-> SuccessThreshold],
      cube_speed |-> [i \in Envs |-> 0],
      finger_dist |-> [i \in Envs |-> ContactThreshold],
      dof_pos |-> [i \in Envs |-> ZeroDofs],
      dof_vel |-> [i \in Envs |-> ZeroDofs],
      pos_control |-> [i \in Envs |-> ZeroDofs],
      init_cube_state |-> [i \in Envs |-> ZeroCubeState],
      goal_cube_state |-> [i \in Envs |-> ZeroCubeState],
      priv_info_buf |-> [i \in Envs |-> [k \in 0 .. (cfg.privInfoDim - 1) |-> 0]],
      proprio_hist_buf |-> AllocatedHistory(cfg) ]

\* the object, goal, joint and counter values of environment i in s
ResetRow(s, i) ==
    << s.init_cube_state[i], s.goal_cube_state[i], s.dof_pos[i], s.dof_vel[i],
       s.pos_control[i], s.arm_control[i], s.progress_buf[i], s.reset_buf[i],
       s.hold_counters[i], s.contact_time[i] >>

\* C26: the state reset_idx(S) produces for the indices in S is a function of
\* the configuration and of the random draws only: it is the state the same
\* call with the same draws produces from freshly allocated buffers, whatever
\* the object, goal, joint and counter values were before, and applying
\* reset_idx(S) again with the same draws changes nothing
C26_ResetIgnoresOldState ==
    pc = "returned"
    => /\ \A i \in hist.reset_ids :
            ResetRow(Self, i)
              = ResetRow(reset_idx(cfg, hist.reset_ids, hist.draw,
                                   AllocatedBuffers), i)
       /\ reset_idx(cfg, hist.reset_ids, hist.draw, Self) = Self

C26_Witness ==
    /\ pc = "returned" /\ hist.reset_ids = Envs
    /\ success_buf[0] /\ cube_contact[0] = ContactThreshold - 1
    /\ init_cube_state[0] # ZeroCubeState
    /\ init_cube_state[0].quat = << 0, 0, 0, 1 >>
    /\ dof_vel[0] = ZeroDofs /\ progress_buf[0] = 0

----------------------------------------------------------------------------
(* Contact specification: the throw task with the object in and out of     *)
(* contact with the fingers, with and without success                       *)

ContactConfigs ==
    {WithEpisode(Selectors("throw", "jvel", "joint", FALSE),
                 MaxEpisodeLength, 0, 1, FALSE)}

ContactPhysics ==
    [Envs -> {[dist |-> SuccessThreshold, speed |-> 0, finger |-> ContactThreshold - 1],
              [dist |-> SuccessThreshold, speed |-> 0, finger |-> ContactThreshold],
              [dist |-> SuccessThreshold - 1, speed |-> 0, finger |-> ContactThreshold]}]

\* every reset leaves the object between the fingers
ContactDraws ==
    {[i \in Envs |-> NominalDraw(SuccessThreshold, ContactThreshold - 1)]}

InitContact == cfg \in ContactConfigs /\ InitBuffers

NextContact ==
    \/ Construct(ContactDraws)
    \/ PrePhysicsStep([Envs -> RegularOsc], [Envs -> LifeActions],
                      [Envs -> LifeVelocities], [Envs -> RestingPose])
    \/ Simulate(ContactPhysics)
    \/ PostPhysicsStep(ContactDraws)

SpecContact == InitContact /\ [][NextContact]_vars

\* C27: in the throw task contact_time[i] is never negative; each
\* post_physics_step adds exactly 1 when the object-to-finger distance of i,
\* as last refreshed, is below the contact threshold and leaves the timer as
\* it is otherwise, unless the reset flag of i is set on entry, and then the
\* timer becomes 0; nothing but a reset of i takes a timer back to 0
C27_ContactTimer ==
    [][\A i \in Envs :
         /\ contact_time'[i] >= 0
         /\ pc = "post"
            => contact_time'[i]
                 = IF reset_buf[i] # 0 THEN 0
                   ELSE contact_time[i]
                        + (IF cube_contact[i] < ContactThreshold THEN 1 ELSE 0)
         /\ (pc = "new" /\ pc' = "idle") => contact_time'[i] = 0
         /\ pc \notin {"post", "new"} => contact_time'[i] = contact_time[i]
         /\ (contact_time[i] > 0 /\ contact_time'[i] = 0)
            => (pc = "post" /\ reset_buf[i] # 0 /\ i \in hist'.post_resets)]_vars

C27_Witness ==
    /\ pc = "idle" /\ cfg.task = "throw" /\ control_steps = 2
    /\ contact_time[0] = 2 /\ contact_time[1] = 1
    /\ hist.post_resets = {}

----------------------------------------------------------------------------
(* Nullspace specification: the joint error of the nullspace term of        *)
(* _compute_osc_torques on joint positions across the joint range           *)

\* np.pi, in milliradians
Pi == 3142
TwoPi == 2 * Pi

\* a joint error that is not wrapped
wrapped_error_identity(e) == e

\* (e + np.pi) % (2 * np.pi) - np.pi; the remainder takes the sign of the
\* divisor
wrapped_error(e) == ((e + Pi) % TwoPi) - Pi

\* the joint error of the nullspace term, per arm joint
nullspace_error(c, q) ==
    [j \in ArmJoints |-> wrapped_error(At(franka_default_dof_pos(c), j) - q[j])]

WrapConfigs ==
    {WithEpisode(Selectors("push", "osc", c, FALSE), MaxEpisodeLength, 0, 1, FALSE) :
        c \in {"pose2d", "pose3d"}}
    \cup {WithEpisode(Selectors("throw", "osc", "joint", FALSE),
                      MaxEpisodeLength, 0, 1, FALSE)}

\* the joints whose range lets the error pass pi
WrapJoints == {4, 6}

\* errors around 0, around pi and at the ends of the joint range
WrapErrors(c, j) ==
    {0, 1, -1, Pi - 1, Pi, Pi + 1,
     At(franka_default_dof_pos(c), j) - At(franka_dof_lower_limits, j),
     At(franka_default_dof_pos(c), j) - At(franka_dof_upper_limits, j)}

\* joint positions inside the joint limits: the default pose with one joint
\* moved
WrapPoses(c) ==
    {[k \in Dofs |-> IF k = j THEN At(franka_default_dof_pos(c), j) - e
                     ELSE At(franka_default_dof_pos(c), k)] :
        <<j, e>> \in {x \in WrapJoints \X (-2 * TwoPi .. 2 * TwoPi) :
                        /\ x[2] \in WrapErrors(c, x[1])
                        /\ At(franka_default_dof_pos(c), x[1]) - x[2]
                             >= At(franka_dof_lower_limits, x[1])
                        /\ At(franka_default_dof_pos(c), x[1]) - x[2]
                             <= At(franka_dof_upper_limits, x[1])}}

InitWrap ==
    /\ cfg \in WrapConfigs
    /\ kp = [i \in Envs |-> default_kp(cfg)]
    /\ steps_elapsed = 0
    /\ pc = "osc"
    /\ raised = ""
    /\ control_steps = 0
    /\ sim_left = 0
    /\ progress_buf = [i \in Envs |-> 0]
    /\ reset_buf = [i \in Envs |-> 0]
    /\ success_buf = [i \in Envs |-> FALSE]
    /\ hold_counters = [i \in Envs |-> 0]
    /\ contact_time = [i \in Envs |-> 0]
    /\ cube_contact = [i \in Envs |-> ContactThreshold]
    /\ vel_i_error = [i \in Envs |-> ZeroError]
    /\ arm_control = [i \in Envs |-> ZeroTorque]
    /\ actions_set = TRUE
    /\ cube_dist = [i \in Envs |-> SuccessThreshold]
    /\ cube_speed = [i \in Envs |-> 0]
    /\ finger_dist = [i \in Envs |-> ContactThreshold]
    /\ eef_dist = [i \in Envs |-> GoToPosEpsilon]
    /\ go_iter = 0
    /\ sub_ticks = 0
    /\ dof_pos \in [Envs -> WrapPoses(cfg)]
    /\ dof_vel = [i \in Envs |-> ZeroDofs]
    /\ pos_control = [i \in Envs |-> reset_pos(cfg, ZeroDofs)]
    /\ init_cube_state = [i \in Envs |->
          sampled_init_cube_state(cfg, NominalDraw(SuccessThreshold, ContactThreshold))]
    /\ goal_cube_state = [i \in Envs |->
          sampled_goal_cube_state(cfg, NominalDraw(SuccessThreshold, ContactThreshold))]
    /\ priv_info_buf = [i \in Envs |-> [k \in 0 .. (cfg.privInfoDim - 1) |-> 0]]
    /\ proprio_hist_buf = AllocatedHistory(cfg)
    /\ hist = HistInit

\* the nullspace joint error of one _compute_osc_torques call
NullspaceError ==
    /\ pc = "osc"
    /\ pc' = "returned"
    /\ hist' = [hist EXCEPT !.null_err =
                  [i \in Envs |-> nullspace_error(cfg, [j \in ArmJoints |-> dof_pos[i][j]])]]
    /\ UNCHANGED << cfg, raised, control_steps, sim_left, progress_buf,
                    reset_buf, success_buf, hold_counters, contact_time,
                    cube_contact, vel_i_error, arm_control, actions_set,
                    cube_dist, cube_speed, finger_dist, eef_dist, go_iter,
                    sub_ticks, pos_control, sampler_vars, gain_vars >>

NextWrap == NullspaceError

SpecWrap == InitWrap /\ [][NextWrap]_vars

\* the unwrapped error of joint j of environment i
JointError(i, j) == At(franka_default_dof_pos(cfg), j) - dof_pos[i][j]

\* C28 as stated: the wrapped error w satisfies -pi < w <= pi and is
\* congruent to the unwrapped error e modulo 2 pi; an error that is an odd
\* multiple of pi is wrapped to +pi
C28_WrappedIntoLeftOpenInterval ==
    pc = "returned"
    => \A i \in Envs, j \in ArmJoints :
         /\ hist.null_err[i][j] > -Pi /\ hist.null_err[i][j] <= Pi
         /\ (hist.null_err[i][j] - JointError(i, j)) % TwoPi = 0
         /\ JointError(i, j) % TwoPi = Pi => hist.null_err[i][j] = Pi

\* C28, amended: the wrapped error w satisfies -pi <= w < pi and is congruent
\* to the unwrapped error e modulo 2 pi; an error that is an odd multiple of
\* pi is wrapped to -pi
C28_WrappedIntoRightOpenInterval ==
    pc = "returned"
    => \A i \in Envs, j \in ArmJoints :
         /\ hist.null_err[i][j] >= -Pi /\ hist.null_err[i][j] < Pi
         /\ (hist.null_err[i][j] - JointError(i, j)) % TwoPi = 0
         /\ JointError(i, j) % TwoPi = Pi => hist.null_err[i][j] = -Pi

C28_Witness ==
    /\ pc = "returned"
    /\ JointError(0, 6) = Pi /\ hist.null_err[0][6] = -Pi
    /\ \E i \in Envs \ {0} :
         JointError(i, 6) = Pi + 1 /\ hist.null_err[i][6] = 1 - Pi

\* C29: during construction of the push task the hold counter exists with
\* value 0 before its first update, and reset_idx has populated the object
\* and goal rows of every environment before the first _refresh, so the first
\* state projection leaves a hold counter of 0 or 1
C29_PopulatedBeforeFirstRefresh ==
    [][(pc = "new" /\ cfg.task = "push")
       => /\ \A i \in Envs : hold_counters[i] = 0
          /\ pc' = "idle"
             => \A i \in Envs :
                  /\ init_cube_state'[i] # ZeroCubeState
                  /\ goal_cube_state'[i] # ZeroCubeState
                  /\ init_cube_state'[i].z = TableSurfaceZ + CubeSize \div 2
                  /\ goal_cube_state'[i].z = TableSurfaceZ + CubeSize \div 2
                  /\ hold_counters'[i] = Stepped(0, cube_dist'[i])
                  /\ hold_counters'[i] >= 0]_vars

C29_Witness ==
    /\ pc = "idle" /\ cfg.task = "push" /\ control_steps = 0
    /\ hist.constructed
    /\ hold_counters[0] = 1
    /\ \E i \in Envs \ {0} : hold_counters[i] = 0
    /\ \A i \in Envs : goal_cube_state[i].quat = << 0, 0, 0, 1 >>

----------------------------------------------------------------------------
(* History specification: the push task with history buffers of one to     *)
(* MaxHistLen slots, narrower than, as wide as and wider than the object    *)
(* state                                                                    *)

MaxHistLen == 3

WithHistory(c, len, width) == [c EXCEPT !.propHistLen = len, !.propDim = width]

HistConfigs ==
    {WithHistory(WithEpisode(Selectors("push", "osc", "pose2d", FALSE),
                             MaxEpisodeLength, 0, 1, FALSE), len, width) :
        len \in 1 .. MaxHistLen,
        width \in {NumCubeStates - 1, NumCubeStates, NumCubeStates + 1}}

InitHist == cfg \in HistConfigs /\ InitBuffers

NextHist ==
    \/ Construct(CtrlDraws)
    \/ PrePhysicsStep([Envs -> RegularOsc], [Envs -> LifeActions],
                      [Envs -> LifeVelocities], [Envs -> RestingPose])
    \/ Simulate([Envs -> Physics(cfg.task)])
    \/ PostPhysicsStep(CtrlDraws)

SpecHist == InitHist /\ [][NextHist]_vars

\* the object state post_physics_step has just refreshed, zero-padded
NewestRow(dist) ==
    [k \in 1 .. cfg.propDim |->
        IF k = 1 THEN dist
        ELSE IF k = 3 THEN TableSurfaceZ + CubeSize \div 2
        ELSE IF k = NumCubeStates THEN 1 ELSE 0]

\* slot t of the history holds the entry of the log that many calls back,
\* and zeros while fewer calls have been made
WindowHolds(buf, log, done) ==
    LET H == cfg.propHistLen
        n == Len(log)
    IN /\ n = IF done < H THEN done ELSE H
       /\ Len(buf) = H
       /\ \A t \in 1 .. H :
            buf[t] = IF t <= H - n
                     THEN [k \in 1 .. cfg.propDim |-> 0]
                     ELSE padded(log[t - (H - n)], cfg.propDim)

\* C30: every store_proprio_hist call shifts the history of each environment
\* one slot towards the oldest end, dropping the oldest entry, and writes the
\* current object position and quaternion, zero-padded to the buffer width,
\* into the newest slot, so that after k calls the last min(k, history
\* length) slots hold the last object states in chronological order; the call
\* raises ValueError when the buffer is narrower than the seven values; and
\* reset_idx, like every other method, leaves the history as it is
C30_SlidingWindow ==
    [][\A i \in Envs :
         /\ (pc = "post" /\ pc' = "idle")
            => /\ cfg.propDim >= NumCubeStates
               /\ proprio_hist_buf'[i]
                    = Append(Tail(proprio_hist_buf[i]), NewestRow(cube_dist'[i]))
               /\ WindowHolds(proprio_hist_buf'[i], hist'.obj_log[i],
                              control_steps')
         /\ (pc = "post" /\ pc' # "idle")
            => /\ proprio_hist_buf'[i] = proprio_hist_buf[i]
               /\ cfg.propDim < NumCubeStates
               /\ raised' = "ValueError"
         /\ pc # "post" => proprio_hist_buf'[i] = proprio_hist_buf[i]]_vars

C30_Witness ==
    /\ pc = "idle" /\ cfg.propHistLen = MaxHistLen
    /\ cfg.propDim = NumCubeStates + 1
    /\ control_steps = 2
    /\ 0 \in hist.post_resets
    /\ proprio_hist_buf[0][MaxHistLen - 1][1] = SuccessThreshold - 1
    /\ proprio_hist_buf[0][MaxHistLen][1] = SuccessThreshold
    /\ proprio_hist_buf[0][MaxHistLen][NumCubeStates + 1] = 0
    /\ proprio_hist_buf[0][1] = [k \in 1 .. cfg.propDim |-> 0]

====
